---- MODULE Spec2Model ----
(***************************************************************************)
(* TherapistIndex data pipeline (scripts/clean_data.py, scripts/utils.py). *)
(*                                                                         *)
(* Strings are sequences of one-character strings, so that lower(),        *)
(* strip(), re.sub(r"\D", "", s) and substring tests are computed, not     *)
(* assumed.  A pandas DataFrame is a sequence of rows; every row carries   *)
(* its pandas index label in the field "index".  A missing cell (NaN) is   *)
(* the value NaN below.                                                    *)
(***************************************************************************)
EXTENDS Integers, Sequences, FiniteSets, TLC

VARIABLES
    raw,        \* the frame load_raw_csvs returned
    columns,    \* the columns of the frame
    keywords,   \* config/filter_keywords.json as load_filter_keywords returns it
    df,         \* the working frame of main
    kept,       \* the frame remove_duplicates holds before its reset_index
    again,      \* the result of a second remove_duplicates
    pc,         \* the step main runs next
    phone_in,   \* the argument of a standardize_phone call
    phone_out,  \* its result
    config,     \* the alias tables of config/insurance_list.json and specializations.json
    lookup,     \* the alias -> canonical name lookups built from them
    text_in,    \* the argument of a text extractor call
    result,     \* its return value
    args,       \* the command line arguments of the running script
    start_idx,  \* enrich_data.main: the row index at which the next batch starts
    all_results,\* enrich_data.main: the enrichment vectors accumulated so far
    checkpoint, \* the file enrichment_checkpoint.csv: {} when absent, {frame} when written
    attempt,    \* pull_google_maps: the attempt of the retry loop
    verify_idx, \* verify_licenses.main: the row the loop is at
    events      \* the calls made to the outside so far (crawls, requests, sleeps)

vars == <<raw, columns, keywords, df, kept, again, pc, phone_in, phone_out,
          config, lookup, text_in, result,
          args, start_idx, all_results, checkpoint, attempt, verify_idx, events>>

\* the variables of the enrichment run, the retry loop and the license verification
runVars == <<args, start_idx, all_results, checkpoint, attempt, verify_idx, events>>

\* the variables of the enrichment functions
textVars == <<config, lookup, text_in, result>>

----------------------------------------------------------------------------
(* Strings *)

\* A missing cell: pandas NaN (read_csv(dtype=str) yields NaN for an empty cell).
NaN == <<"NaN">>

\* no enrichment function has been called
TextIdle == config = <<>> /\ lookup = <<>> /\ text_in = NaN /\ result = NaN

\* no enrichment run, retry loop or license verification is under way
RunIdle ==
    /\ args = <<>> /\ start_idx = 0 /\ all_results = <<>> /\ checkpoint = {}
    /\ attempt = 0 /\ verify_idx = 0 /\ events = <<>>

UpperChars == <<"A","B","C","D","E","F","G","H","I","J","K","L","M",
                "N","O","P","Q","R","S","T","U","V","W","X","Y","Z">>

LowerChars == <<"a","b","c","d","e","f","g","h","i","j","k","l","m",
                "n","o","p","q","r","s","t","u","v","w","x","y","z">>

DigitChars == {"0","1","2","3","4","5","6","7","8","9"}

WhiteChars == {" "}

\* str.lower() on one character
LowerChar(c) ==
    IF \E k \in 1..26 : UpperChars[k] = c
    THEN LowerChars[CHOOSE k \in 1..26 : UpperChars[k] = c]
    ELSE c

\* str.lower()
Lower(s) == [i \in 1..Len(s) |-> LowerChar(s[i])] \o <<>>

\* str.strip(): drop leading and trailing whitespace
Strip(s) ==
    LET nonblank == {i \in 1..Len(s) : s[i] \notin WhiteChars}
    IN  IF nonblank = {} THEN <<>>
        ELSE LET lo == CHOOSE i \in nonblank : \A j \in nonblank : i <= j
                 hi == CHOOSE i \in nonblank : \A j \in nonblank : j <= i
             IN  SubSeq(s, lo, hi)

\* re.sub(r"\D", "", s)
DigitsOnly(s) == SelectSeq(s, LAMBDA c : c \in DigitChars)

\* Python "pat in text" / pandas str.contains for a literal pattern
Contains(text, pat) ==
    \E i \in 0..(Len(text) - Len(pat)) : SubSeq(text, i + 1, i + Len(pat)) = pat

\* Series.fillna("")
FillNa(v) == IF v = NaN THEN <<>> ELSE v

----------------------------------------------------------------------------
(* DataFrame helpers *)

\* a frame built row by row, as a sequence
Rows(f) == f \o <<>>

\* df[mask]: the rows whose mask entry is TRUE, in order, index labels kept
SelectRows(frame, mask) ==
    LET idx == SelectSeq([i \in 1..Len(frame) |-> i], LAMBDA i : mask[i])
    IN  Rows([k \in 1..Len(idx) |-> frame[idx[k]]])

\* DataFrame.duplicated(keep="first") over a sequence of key tuples.  pandas
\* treats two missing values as equal here, as NaN = NaN does in this model.
Duplicated(keys) ==
    Rows([i \in 1..Len(keys) |-> \E j \in 1..(i - 1) : keys[j] = keys[i]])

\* df.reset_index(drop=True): labels 0..n-1
reset_index(frame) ==
    Rows([i \in 1..Len(frame) |-> [frame[i] EXCEPT !.index = i - 1]])

----------------------------------------------------------------------------
(* remove_duplicates *)

\* AddKeys without lower() and strip(): the keys are the raw cells
AddKeysRaw(frame) ==
    Rows([i \in 1..Len(frame) |->
        frame[i] @@ [name_key  |-> frame[i].therapist_name,
                     addr_key  |-> FillNa(frame[i].address),
                     phone_key |-> DigitsOnly(FillNa(frame[i].phone))]])

\* AddKeys writing the normalized name over the name column itself
AddKeysInPlace(frame) ==
    Rows([i \in 1..Len(frame) |->
        [therapist_name |-> IF frame[i].therapist_name = NaN THEN NaN
                            ELSE Strip(Lower(frame[i].therapist_name)),
         name_key       |-> IF frame[i].therapist_name = NaN THEN NaN
                            ELSE Strip(Lower(frame[i].therapist_name)),
         addr_key       |-> Strip(Lower(FillNa(frame[i].address))),
         phone_key      |-> DigitsOnly(FillNa(frame[i].phone))] @@ frame[i]])

\* the three temporary key columns _name_key, _addr_key, _phone_key
AddKeys(frame) ==
    Rows([i \in 1..Len(frame) |->
        frame[i] @@ [name_key  |-> IF frame[i].therapist_name = NaN THEN NaN
                                   ELSE Strip(Lower(frame[i].therapist_name)),
                     addr_key  |-> Strip(Lower(FillNa(frame[i].address))),
                     phone_key |-> DigitsOnly(FillNa(frame[i].phone))]])

KeyColumns == {"name_key", "addr_key", "phone_key"}

\* df.drop(columns=[the key columns])
DropKeys(frame) ==
    Rows([i \in 1..Len(frame) |->
        [c \in (DOMAIN frame[i]) \ KeyColumns |-> frame[i][c]]])

\* phase 1 comparing every row with its predecessor only
DedupePlaceIdAdjacent(frame, cols) ==
    IF "place_id" \in cols
    THEN SelectRows(frame, Rows([i \in 1..Len(frame) |->
                 ~(i > 1 /\ frame[i - 1].place_id = frame[i].place_id)]))
    ELSE frame

\* phase 1 with keep="last"
DedupePlaceIdKeepLast(frame, cols) ==
    IF "place_id" \in cols
    THEN SelectRows(frame, Rows([i \in 1..Len(frame) |->
                 ~\E j \in (i + 1)..Len(frame) : frame[j].place_id = frame[i].place_id]))
    ELSE frame

\* phase 1: drop_duplicates(subset=["place_id"], keep="first"), if the column exists
DedupePlaceId(frame, cols) ==
    IF "place_id" \in cols
    THEN LET dup == Duplicated(Rows([i \in 1..Len(frame) |-> <<frame[i].place_id>>]))
         IN  SelectRows(frame, [i \in 1..Len(frame) |-> ~dup[i]])
    ELSE frame

\* phase 2: drop_duplicates(subset=["_name_key", "_addr_key"], keep="first")
DedupeNameAddr(frame) ==
    LET dup == Duplicated(Rows([i \in 1..Len(frame) |->
                                   <<frame[i].name_key, frame[i].addr_key>>]))
    IN  SelectRows(frame, [i \in 1..Len(frame) |-> ~dup[i]])

\* phase 3 without the floor of 10 digits
DedupeNamePhoneNoFloor(frame) ==
    LET dup == Duplicated(Rows([i \in 1..Len(frame) |->
                                   <<frame[i].name_key, frame[i].phone_key>>]))
    IN  SelectRows(frame, Rows([i \in 1..Len(frame) |-> ~dup[i]]))

\* phase 3: among the rows with >= 10 phone digits, drop later name+phone repeats
DedupeNamePhone(frame) ==
    LET mask   == Rows([i \in 1..Len(frame) |-> Len(frame[i].phone_key) >= 10])
        sub    == SelectRows(frame, mask)
        dupes  == Duplicated(Rows([k \in 1..Len(sub) |->
                                      <<sub[k].name_key, sub[k].phone_key>>]))
        marked == {sub[k].index : k \in {n \in 1..Len(sub) : dupes[n]}}
    IN  SelectRows(frame, [i \in 1..Len(frame) |->
                              ~(mask[i] /\ frame[i].index \in marked)])

\* remove_duplicates before its final reset_index: the surviving rows with
\* the index labels they had in the argument
remove_duplicates_rows(frame, cols) ==
    DropKeys(DedupeNamePhone(DedupeNameAddr(DedupePlaceId(AddKeys(frame), cols))))

remove_duplicates(frame, cols) == reset_index(remove_duplicates_rows(frame, cols))

----------------------------------------------------------------------------
(* Record filters *)

\* some phrase of the list occurs in the lowercased text: the loop
\* mask |= col.str.contains(keyword.lower(), na=False) for one row
AnyKeywordIn(text, phrases) ==
    \E k \in 1..Len(phrases) : Contains(text, Lower(phrases[k]))

\* remove_closed reading the status column only
remove_closed_status_only(frame, kw) ==
    SelectRows(frame, Rows([i \in 1..Len(frame) |->
        ~AnyKeywordIn(Lower(FillNa(frame[i].status)),
                      kw.exclude_permanently_closed_indicators)]))

\* remove_closed up to df[~closed_mask]: the rows kept, labels unchanged
remove_closed_rows(frame, kw) ==
    SelectRows(frame, Rows([i \in 1..Len(frame) |->
        LET status_col == Lower(FillNa(frame[i].status))
            name_col   == Lower(FillNa(frame[i].therapist_name))
            closed     == \/ AnyKeywordIn(status_col, kw.exclude_permanently_closed_indicators)
                          \/ AnyKeywordIn(name_col, kw.exclude_permanently_closed_indicators)
        IN  ~closed]))

remove_closed(frame, kw) == reset_index(remove_closed_rows(frame, kw))

\* filter_non_therapists without the category rescue
filter_non_therapists_no_rescue(frame, kw) ==
    SelectRows(frame, Rows([i \in 1..Len(frame) |->
        ~(\/ AnyKeywordIn(Lower(FillNa(frame[i].therapist_name)), kw.exclude_name_contains)
          \/ AnyKeywordIn(Lower(FillNa(frame[i].category)), kw.exclude_category_contains))]))

\* filter_non_therapists up to df[~exclude_mask]: the rows kept, labels unchanged
filter_non_therapists_rows(frame, kw) ==
    SelectRows(frame, Rows([i \in 1..Len(frame) |->
        LET name_col     == Lower(FillNa(frame[i].therapist_name))
            cat_col      == Lower(FillNa(frame[i].category))
            name_exclude == AnyKeywordIn(name_col, kw.exclude_name_contains)
            cat_exclude  == AnyKeywordIn(cat_col, kw.exclude_category_contains)
            cat_include  == AnyKeywordIn(cat_col, kw.include_category_contains)
        IN  ~((name_exclude \/ cat_exclude) /\ ~cat_include)]))

filter_non_therapists(frame, kw) == reset_index(filter_non_therapists_rows(frame, kw))

----------------------------------------------------------------------------
(* Field normalizers *)

\* standardize_phone keeping a leading country code
standardize_phone_keep_country(phone) ==
    IF phone = NaN \/ phone = <<>> THEN <<>>
    ELSE LET digits == DigitsOnly(phone)
         IN  IF Len(digits) # 10 THEN <<>>
             ELSE <<"(">> \o SubSeq(digits, 1, 3) \o <<")", " ">>
                  \o SubSeq(digits, 4, 6) \o <<"-">> \o SubSeq(digits, 7, 10)

\* standardize_phone: "(XXX) XXX-XXXX", or "" when the phone cannot be parsed
standardize_phone(phone) ==
    IF phone = NaN \/ phone = <<>> THEN <<>>
    ELSE LET stripped == DigitsOnly(phone)
             digits   == IF Len(stripped) = 11 /\ stripped[1] = "1"
                         THEN Tail(stripped) ELSE stripped
         IN  IF Len(digits) # 10 THEN <<>>
             ELSE <<"(">> \o SubSeq(digits, 1, 3) \o <<")", " ">>
                  \o SubSeq(digits, 4, 6) \o <<"-">> \o SubSeq(digits, 7, 10)

IsLetter(c) == \E k \in 1..26 : UpperChars[k] = c \/ LowerChars[k] = c

\* a character of the regex class \w
IsWordChar(c) == IsLetter(c) \/ c \in DigitChars \/ c = "_"

\* str.upper() on one character
UpperChar(c) ==
    IF \E k \in 1..26 : LowerChars[k] = c
    THEN UpperChars[CHOOSE k \in 1..26 : LowerChars[k] = c]
    ELSE c

\* str.upper()
Upper(s) == [i \in 1..Len(s) |-> UpperChar(s[i])] \o <<>>

\* str.title(): a letter after a letter is lowercased, any other letter uppercased
Title(s) ==
    [i \in 1..Len(s) |->
        IF ~IsLetter(s[i]) THEN s[i]
        ELSE IF i > 1 /\ IsLetter(s[i - 1]) THEN LowerChar(s[i])
        ELSE UpperChar(s[i])] \o <<>>

\* str.split(sep) for a one-character separator
RECURSIVE Split(_, _)
Split(s, sep) ==
    IF \A i \in 1..Len(s) : s[i] # sep THEN <<s>>
    ELSE LET at == CHOOSE i \in 1..Len(s) :
                       s[i] = sep /\ \A j \in 1..(i - 1) : s[j] # sep
         IN  <<SubSeq(s, 1, at - 1)>> \o Split(SubSeq(s, at + 1, Len(s)), sep)

\* sep.join(parts)
RECURSIVE Join(_, _)
Join(parts, sep) ==
    IF Len(parts) = 0 THEN <<>>
    ELSE IF Len(parts) = 1 THEN parts[1]
    ELSE parts[1] \o sep \o Join(Tail(parts), sep)

\* the title-cased words the re.sub calls of standardize_address put back in
\* upper case: \b(Dc)\b, \b(Md)\b, \b(Va)\b, \b(Nw|Ne|Sw|Se)\b, \b(Usa?)\b
AddressAbbreviations ==
    {<<"D","c">>, <<"M","d">>, <<"V","a">>, <<"N","w">>, <<"N","e">>,
     <<"S","w">>, <<"S","e">>, <<"U","s">>, <<"U","s","a">>}

\* the re.sub chain on one title-cased part: a whole word that is one of the
\* abbreviations is uppercased
FixAbbreviations(part) ==
    [i \in 1..Len(part) |->
        IF \E lo \in 1..i, hi \in i..Len(part) :
              /\ SubSeq(part, lo, hi) \in AddressAbbreviations
              /\ (lo = 1 \/ ~IsWordChar(part[lo - 1]))
              /\ (hi = Len(part) \/ ~IsWordChar(part[hi + 1]))
        THEN UpperChar(part[i])
        ELSE part[i]] \o <<>>

standardize_address(address) ==
    IF address = NaN \/ address = <<>> THEN <<>>
    ELSE LET parts   == Split(Strip(address), ",")
             cleaned == [k \in 1..Len(parts) |-> FixAbbreviations(Title(Strip(parts[k])))]
         IN  Join(cleaned, <<",", " ">>)

\* str.startswith
StartsWith(s, prefix) ==
    Len(s) >= Len(prefix) /\ SubSeq(s, 1, Len(prefix)) = prefix

\* str.rstrip("/")
RECURSIVE RStripSlash(_)
RStripSlash(s) ==
    IF Len(s) > 0 /\ s[Len(s)] = "/" THEN RStripSlash(SubSeq(s, 1, Len(s) - 1)) ELSE s

Http == <<"h","t","t","p",":","/","/">>

Https == <<"h","t","t","p","s",":","/","/">>

normalize_url(url) ==
    IF url = NaN \/ url = <<>> THEN <<>>
    ELSE LET u == RStripSlash(Strip(url))
         IN  IF u = <<>> THEN <<>>
             ELSE IF StartsWith(u, Http) \/ StartsWith(u, Https) THEN u
             ELSE Https \o u

IsAlnum(c) == IsLetter(c) \/ c \in DigitChars

\* one host label: [a-zA-Z0-9](?:[a-zA-Z0-9-]{0,61}[a-zA-Z0-9])?
IsHostLabel(l) ==
    /\ Len(l) >= 1
    /\ Len(l) <= 63
    /\ IsAlnum(l[1])
    /\ IsAlnum(l[Len(l)])
    /\ \A i \in 1..Len(l) : IsAlnum(l[i]) \/ l[i] = "-"

\* (?:label\.)+[a-zA-Z]{2,}
IsHost(h) ==
    LET labels == Split(h, ".")
    IN  /\ Len(labels) >= 2
        /\ \A k \in 1..(Len(labels) - 1) : IsHostLabel(labels[k])
        /\ Len(labels[Len(labels)]) >= 2
        /\ \A i \in 1..Len(labels[Len(labels)]) : IsLetter(labels[Len(labels)][i])

\* is_valid_url: ^https?://host(?:/[^\s]*)?$
is_valid_url(url) ==
    IF url = NaN \/ url = <<>> THEN FALSE
    ELSE LET u    == Strip(url)
             rest == IF StartsWith(u, Https) THEN SubSeq(u, Len(Https) + 1, Len(u))
                     ELSE IF StartsWith(u, Http) THEN SubSeq(u, Len(Http) + 1, Len(u))
                     ELSE NaN
         IN  /\ rest # NaN
             /\ LET parts == Split(rest, "/")
                IN  /\ IsHost(parts[1])
                    /\ \A i \in 1..Len(rest) : rest[i] \notin WhiteChars

\* the website column after normalize_url only: invalid URLs are not cleared
StandardizeWebsiteKeepInvalid(website) == normalize_url(website)

\* the website column of standardize_fields: normalize, then clear what is
\* not a valid URL
StandardizeWebsite(website) ==
    LET w     == normalize_url(website)
        valid == IF w # <<>> THEN is_valid_url(w) ELSE TRUE
    IN  IF valid THEN w ELSE <<>>

\* standardize_fields on the columns of the frame (phone, address, website)
standardize_fields(frame) ==
    Rows([i \in 1..Len(frame) |->
        [frame[i] EXCEPT !.phone   = standardize_phone(@),
                         !.address = standardize_address(@),
                         !.website = StandardizeWebsite(@)]])

----------------------------------------------------------------------------
(* Optional URL probe and derived fields *)

\* validate_urls_live with sample_size > 0: the websites of the rows in dead
\* (rows that were probed and found unreachable) are cleared
ClearWebsites(frame, dead) ==
    Rows([i \in 1..Len(frame) |->
        IF i \in dead THEN [frame[i] EXCEPT !.website = <<>>] ELSE frame[i]])

\* the rows validate_urls_live may probe: df[df["website"].astype(bool)]
WithWebsite(frame) == {i \in 1..Len(frame) : frame[i].website # <<>>}

\* f"{name} {category}".lower() of guess_license_type
LicenseText(name, category) ==
    Lower((IF name = NaN THEN <<"n","a","n">> ELSE name) \o <<" ">> \o category)

guess_license_type(name, category) ==
    LET text == LicenseText(name, category)
    IN  IF \/ Contains(text, <<"p","s","y","c","h","i","a","t","r">>)
           \/ Contains(text, <<","," ","m","d">>)
           \/ Contains(text, <<"m",".","d",".">>) THEN "MD/Psychiatrist"
        ELSE IF \/ Contains(text, <<"p","s","y","d">>)
                \/ Contains(text, <<"p","s","y",".","d">>) THEN "PsyD"
        ELSE IF \/ Contains(text, <<"p","h",".","d">>)
                \/ Contains(text, <<"p","h","d">>)
                \/ Contains(text, <<"p","s","y","c","h","o","l","o","g","i","s","t">>) THEN "PhD"
        ELSE IF \/ Contains(text, <<"l","c","s","w">>)
                \/ Contains(text, <<"l","c","s","w","-","c">>) THEN "LCSW"
        ELSE IF Contains(text, <<"l","c","p","c">>) THEN "LCPC"
        ELSE IF Contains(text, <<"l","p","c">>) THEN "LPC"
        ELSE IF Contains(text, <<"l","c","m","f","t">>) THEN "LCMFT"
        ELSE IF \/ Contains(text, <<"l","m","f","t">>)
                \/ Contains(text, <<"m","a","r","r","i","a","g","e"," ","a","n","d"," ","f","a","m","i","l","y">>) THEN "LMFT"
        ELSE ""

GroupIndicators ==
    {<<"g","r","o","u","p">>,
     <<"a","s","s","o","c","i","a","t","e","s">>,
     <<"&"," ","a","s","s","o","c","i","a","t","e","s">>,
     <<"c","e","n","t","e","r">>,
     <<"c","e","n","t","r","e">>,
     <<"c","l","i","n","i","c">>,
     <<"i","n","s","t","i","t","u","t","e">>,
     <<"p","r","a","c","t","i","c","e">>,
     <<"s","e","r","v","i","c","e","s">>,
     <<"w","e","l","l","n","e","s","s">>,
     <<"c","o","u","n","s","e","l","i","n","g"," ","c","e","n","t","e","r">>,
     <<"t","h","e","r","a","p","y"," ","c","e","n","t","e","r">>,
     <<"b","e","h","a","v","i","o","r","a","l"," ","h","e","a","l","t","h">>,
     <<"m","e","n","t","a","l"," ","h","e","a","l","t","h"," ","s","e","r","v","i","c","e","s">>,
     <<"p","s","y","c","h","o","l","o","g","i","c","a","l"," ","s","e","r","v","i","c","e","s">>,
     <<"p","a","r","t","n","e","r","s">>,
     <<"c","o","l","l","e","c","t","i","v","e">>,
     <<"c","o","l","l","a","b","o","r","a","t","i","v","e">>}

is_group_practice(name) ==
    \E ind \in GroupIndicators : Contains(Lower(name), ind)

add_derived_fields(frame) ==
    Rows([i \in 1..Len(frame) |->
        frame[i] @@ [license_type       |-> guess_license_type(frame[i].therapist_name,
                                                               FillNa(frame[i].category)),
                     is_group_practice  |-> is_group_practice(frame[i].therapist_name),
                     data_source        |-> "outscraper",
                     enrichment_status  |-> "cleaned",
                     last_verified_date |-> ""]])

----------------------------------------------------------------------------
(* Inputs of the deduplication runs *)

MaxBatch == 3

Id1 == <<"p","1">>
Id2 == <<"p","2">>
NameJo == <<"J","o">>
NameJoVariant == <<" ","J","O">>
NameAl == <<"A","l">>
Addr1 == <<"1"," ","A">>
PhoneShort == <<"5","5","5","-","0","1","0","0">>
PhoneLong == <<"(","2","0","2",")"," ","5","5","5","-","0","1","0","0">>

\* rows of a batch: every combination of place id (missing or one of two),
\* name (two distinct names), address (missing or present) and phone (8 or 10 digits)
DedupRows ==
    [index : {0}, place_id : {NaN, Id1, Id2},
     therapist_name : {NameJo, NameAl},
     address : {NaN, Addr1}, phone : {PhoneShort, PhoneLong},
     category : {NaN}, status : {NaN}, website : {NaN}]

\* the last row of a batch may also spell the name in another case and with
\* padding, or lack the phone: every phase compares it with all earlier rows
DedupLastRows ==
    DedupRows
    \cup [index : {0}, place_id : {NaN, Id1, Id2},
          therapist_name : {NameJoVariant},
          address : {NaN, Addr1}, phone : {PhoneShort, PhoneLong},
          category : {NaN}, status : {NaN}, website : {NaN}]
    \cup [index : {0}, place_id : {NaN, Id1, Id2},
          therapist_name : {NameJo, NameAl},
          address : {NaN, Addr1}, phone : {NaN},
          category : {NaN}, status : {NaN}, website : {NaN}]

NoKeywords ==
    [exclude_name_contains |-> <<>>, exclude_category_contains |-> <<>>,
     include_category_contains |-> <<>>,
     exclude_permanently_closed_indicators |-> <<>>]

AllColumns == {"therapist_name", "address", "phone", "category", "status",
               "website", "place_id"}

InitDedup ==
    /\ \E n \in 1..MaxBatch :
          \E f \in [1..(n - 1) -> DedupRows], last \in DedupLastRows :
              raw = reset_index(Append(f, last))
    /\ columns \in {AllColumns, AllColumns \ {"place_id"}}
    /\ \/ "place_id" \in columns
       \/ \A i \in 1..Len(raw) : raw[i].place_id = NaN
    \* place ids are only compared with each other: the first id of a batch is Id1
    /\ \A i \in 1..Len(raw) :
          raw[i].place_id = Id2 => \E j \in 1..(i - 1) : raw[j].place_id = Id1
    /\ keywords = NoKeywords
    /\ df = raw
    /\ kept = <<>>
    /\ again = <<>>
    /\ pc = "dedupe"
    /\ phone_in = NaN
    /\ phone_out = NaN
    /\ TextIdle
    /\ RunIdle

\* df = remove_duplicates(df)
Dedupe ==
    /\ pc = "dedupe"
    /\ kept' = remove_duplicates_rows(df, columns)
    /\ df' = reset_index(kept')
    /\ pc' = "deduped"
    /\ UNCHANGED <<runVars, raw, columns, keywords, again, phone_in, phone_out, textVars>>

\* remove_duplicates applied to its own output
DedupeAgain ==
    /\ pc = "deduped"
    /\ again' = remove_duplicates(df, columns)
    /\ pc' = "rerun"
    /\ UNCHANGED <<runVars, raw, columns, keywords, kept, df, phone_in, phone_out, textVars>>

NextDedup == Dedupe \/ DedupeAgain

SpecDedup == InitDedup /\ [][NextDedup]_vars

----------------------------------------------------------------------------
(* The cleaning pipeline: main of clean_data.py *)

\* main with standardize_fields moved in front of the filters
MainStepsNormalizeFirst ==
    <<"standardize_fields", "remove_closed", "filter_non_therapists",
      "remove_duplicates", "validate_urls_live", "add_derived_fields">>

\* the steps of main, in the order main calls them
MainSteps ==
    <<"remove_closed", "filter_non_therapists", "remove_duplicates",
      "standardize_fields", "validate_urls_live", "add_derived_fields">>

\* the step main runs after step s
StepAfter(s) ==
    LET k == CHOOSE i \in 1..Len(MainSteps) : MainSteps[i] = s
    IN  IF k = Len(MainSteps) THEN "write_output" ELSE MainSteps[k + 1]

MaxRows == 2

NameHealing == <<"H","e","a","l","i","n","g"," ","C","e","n","t","e","r">>
NameJane == <<"J","a","n","e"," ","D","o","e",","," ","L","C","S","W">>
NameJaneVariant == <<" ","j","a","n","e"," ","d","o","e",","," ","l","c","s","w">>
NameClosed == <<"J","o"," ","S","p","a"," ","-"," ","P","e","r","m","a","n","e","n","t","l","y"," ","C","l","o","s","e","d">>
CatTherapy == <<"I","n","d","i","v","i","d","u","a","l"," ","T","h","e","r","a","p","y">>
CatGym == <<"G","y","m">>
CatTherapyGym == <<"T","h","e","r","a","p","y"," ","G","y","m">>
StatusOpen == <<"O","P","E","R","A","T","I","O","N","A","L">>
StatusClosed == <<"C","L","O","S","E","D","_","P","E","R","M","A","N","E","N","T","L","Y">>
PhoneDashed == <<"2","0","2","-","5","5","5","-","0","1","0","0">>
PhoneCountry == <<"1"," ","(","2","0","2",")"," ","5","5","5","-","0","1","0","0">>
AddrMain == <<"1"," ","m","a","i","n"," ","s","t"," ","n","w",","," ","d","c">>
AddrOak == <<"2"," ","O","a","k"," ","A","v","e">>
SiteBare == <<"w","w","w",".","x",".","o","r","g","/">>
SiteBad == <<"n","o","t"," ","a"," ","u","r","l">>

\* two contents of config/filter_keywords.json
KeywordsA ==
    [exclude_name_contains |-> <<<<"C","e","n","t","e","r">>, <<"s","p","a">>>>,
     exclude_category_contains |-> <<<<"G","y","m">>>>,
     include_category_contains |-> <<<<"T","h","e","r","a","p","y">>>>,
     exclude_permanently_closed_indicators |->
         <<<<"p","e","r","m","a","n","e","n","t","l","y"," ","c","l","o","s","e","d">>, <<"C","L","O","S","E","D","_","P","E","R","M","A","N","E","N","T","L","Y">>>>]

KeywordsB ==
    [exclude_name_contains |-> <<<<"d","o","e">>>>,
     exclude_category_contains |-> <<>>,
     include_category_contains |-> <<>>,
     exclude_permanently_closed_indicators |-> <<<<"C","l","o","s","e","d">>>>]

\* rows that differ in what the filters read: name, category, status
FilterRows ==
    [index : {0}, place_id : {NaN},
     therapist_name : {NameHealing, NameJane, NameClosed},
     category : {NaN, CatTherapy, CatGym, CatTherapyGym},
     status : {NaN, StatusClosed},
     phone : {PhoneDashed}, address : {AddrMain}, website : {NaN}]

\* rows that differ in what the normalizers and the deduplication keys read
FieldRows ==
    [index : {0}, place_id : {NaN},
     therapist_name : {NameJaneVariant},
     category : {NaN},
     status : {StatusOpen},
     phone : {PhoneCountry, PhoneShort, NaN},
     address : {AddrMain, AddrOak, NaN},
     website : {NaN, SiteBare, SiteBad}]

DigitSeq == <<"0","1","2","3","4","5","6","7","8","9">>

\* every row of the loaded frame has a place id of its own
WithPlaceIds(frame) ==
    Rows([i \in 1..Len(frame) |-> [frame[i] EXCEPT !.place_id = <<"p", DigitSeq[i + 1]>>]])

Init ==
    /\ \E n \in 1..MaxRows :
          \E f \in [1..(n - 1) -> FilterRows], last \in FilterRows \cup FieldRows :
              raw = WithPlaceIds(reset_index(Append(f, last)))
    /\ columns = AllColumns
    /\ keywords \in {KeywordsA, KeywordsB}
    /\ df = raw
    /\ kept = <<>>
    /\ again = <<>>
    /\ pc = MainSteps[1]
    /\ phone_in = NaN
    /\ phone_out = NaN
    /\ TextIdle
    /\ RunIdle

\* Step 1: df = remove_closed(df)
RemoveClosed ==
    /\ pc = "remove_closed"
    /\ df' = remove_closed(df, keywords)
    /\ pc' = StepAfter(pc)
    /\ UNCHANGED <<runVars, raw, columns, keywords, kept, again, phone_in, phone_out, textVars>>

\* Step 2: df = filter_non_therapists(df)
FilterNonTherapists ==
    /\ pc = "filter_non_therapists"
    /\ df' = filter_non_therapists(df, keywords)
    /\ pc' = StepAfter(pc)
    /\ UNCHANGED <<runVars, raw, columns, keywords, kept, again, phone_in, phone_out, textVars>>

\* Step 3: df = remove_duplicates(df)
RemoveDuplicates ==
    /\ pc = "remove_duplicates"
    /\ kept' = remove_duplicates_rows(df, columns)
    /\ df' = reset_index(kept')
    /\ pc' = StepAfter(pc)
    /\ UNCHANGED <<runVars, raw, columns, keywords, again, phone_in, phone_out, textVars>>

\* Step 4: df = standardize_fields(df)
StandardizeFields ==
    /\ pc = "standardize_fields"
    /\ df' = standardize_fields(df)
    /\ pc' = StepAfter(pc)
    /\ UNCHANGED <<runVars, raw, columns, keywords, kept, again, phone_in, phone_out, textVars>>

\* Step 5 with --validate-urls 0: validate_urls_live returns df as it is
ValidateUrlsSkip ==
    /\ pc = "validate_urls_live"
    /\ df' = df
    /\ pc' = StepAfter(pc)
    /\ UNCHANGED <<runVars, raw, columns, keywords, kept, again, phone_in, phone_out, textVars>>

\* Step 5 with --validate-urls N > 0: up to N rows with a website are probed
\* and the website of every row found unreachable is cleared
ValidateUrlsLive ==
    /\ pc = "validate_urls_live"
    /\ \E sample_size \in 1..MaxRows :
          \E checked \in SUBSET WithWebsite(df) :
              /\ Cardinality(checked) =
                     IF Cardinality(WithWebsite(df)) > sample_size
                     THEN sample_size ELSE Cardinality(WithWebsite(df))
              /\ \E dead \in SUBSET checked : df' = ClearWebsites(df, dead)
    /\ pc' = StepAfter(pc)
    /\ UNCHANGED <<runVars, raw, columns, keywords, kept, again, phone_in, phone_out, textVars>>

\* Step 6: df = add_derived_fields(df)
AddDerivedFields ==
    /\ pc = "add_derived_fields"
    /\ df' = add_derived_fields(df)
    /\ pc' = StepAfter(pc)
    /\ UNCHANGED <<runVars, raw, columns, keywords, kept, again, phone_in, phone_out, textVars>>

Next ==
    \/ RemoveClosed
    \/ FilterNonTherapists
    \/ RemoveDuplicates
    \/ StandardizeFields
    \/ ValidateUrlsSkip
    \/ ValidateUrlsLive
    \/ AddDerivedFields

Spec == Init /\ [][Next]_vars

----------------------------------------------------------------------------
(* Calls of standardize_phone *)

MaxDigits == 12

\* n digits, the first one lead, the others running through 0..9
DigitString(n, lead) ==
    [i \in 1..n |-> IF i = 1 THEN lead ELSE DigitSeq[(i % 10) + 1]] \o <<>>

\* ways of writing a phone number around its digits
RECURSIVE Dashed(_)
Dashed(d) ==
    IF Len(d) <= 3 THEN d
    ELSE SubSeq(d, 1, 3) \o <<"-">> \o Dashed(SubSeq(d, 4, Len(d)))

Parenthesized(d) ==
    IF Len(d) < 4 THEN <<"(">> \o d \o <<")">>
    ELSE <<"(">> \o SubSeq(d, 1, 3) \o <<")", " ">> \o SubSeq(d, 4, Len(d))

Prefixed(d) ==
    IF Len(d) < 2 THEN <<"+">> \o d \o <<" ", "x">>
    ELSE <<"+">> \o SubSeq(d, 1, 1) \o <<" ">> \o SubSeq(d, 2, Len(d)) \o <<" ", "x">>

PhoneInputs ==
    {NaN} \cup
    UNION {{d, Dashed(d), Parenthesized(d), Prefixed(d)} :
              d \in {DigitString(n, lead) : n \in 0..MaxDigits, lead \in {"1", "2"}}}

InitPhone ==
    /\ phone_in \in PhoneInputs
    /\ phone_out = NaN
    /\ TextIdle
    /\ RunIdle
    /\ pc = "standardize_phone"
    /\ raw = <<>>
    /\ df = <<>>
    /\ kept = <<>>
    /\ again = <<>>
    /\ columns = AllColumns
    /\ keywords = NoKeywords

\* phone_out = standardize_phone(phone_in)
StandardizePhone ==
    /\ pc = "standardize_phone"
    /\ phone_out' = standardize_phone(phone_in)
    /\ pc' = "phone_done"
    /\ UNCHANGED <<runVars, raw, columns, keywords, kept, df, again, phone_in, textVars>>

NextPhone == StandardizePhone

SpecPhone == InitPhone /\ [][NextPhone]_vars

----------------------------------------------------------------------------
(* Vocabulary of the deduplication properties *)

LabelsOf(frame) == {frame[k].index : k \in 1..Len(frame)}

\* the positions of the input rows that are still there after remove_duplicates
Survivors ==
    LET labels == LabelsOf(kept)
    IN  {i \in 1..Len(raw) : raw[i].index \in labels}

\* what the duplicate criteria compare of a record: its place identifier, its
\* lowercased and trimmed name and address, the digits of its phone
Normalized(r) ==
    [place_id |-> r.place_id,
     name     |-> Strip(Lower(r.therapist_name)),
     addr     |-> Strip(Lower(FillNa(r.address))),
     digits   |-> DigitsOnly(FillNa(r.phone))]

NormalizedRows == Rows([i \in 1..Len(raw) |-> Normalized(raw[i])])

SameId(a, b) == a.place_id # NaN /\ a.place_id = b.place_id

SameNameAddr(a, b) == a.name = b.name /\ a.addr = b.addr

SameNamePhone(a, b) ==
    a.name = b.name /\ a.digits = b.digits /\ Len(a.digits) >= 10

Linked(a, b) == SameId(a, b) \/ SameNameAddr(a, b) \/ SameNamePhone(a, b)

\* the pairs i < j of input rows that are directly linked
LinkedPairs ==
    LET norm == NormalizedRows
    IN  {p \in (1..Len(raw)) \X (1..Len(raw)) :
            p[1] < p[2] /\ Linked(norm[p[1]], norm[p[2]])}

\* C1: every record that remove_duplicates removes has an earlier input record
\* with the same present place identifier, or the same normalized name and
\* address, or the same normalized name and the same phone digits (>= 10 of
\* them); two records without a place identifier and with different names are
\* never collapsed.
C1_RemovedHasEarlierLink ==
    pc = "deduped" =>
        LET alive == Survivors
            links == LinkedPairs
        IN  /\ df = reset_index(kept)
            /\ \A i \in 1..Len(raw) :
                  i \notin alive => \E j \in 1..(i - 1) : <<j, i>> \in links

\* C2: remove_duplicates applied to its own output returns the same sequence
\* of records and removes nothing.
C2_Idempotent ==
    pc = "rerun" => again = df /\ Len(again) = Len(df)

C2_Witness ==
    /\ pc = "rerun"
    /\ Len(df) < Len(raw)
    /\ Len(df) >= 2

\* the pairs C3 is about: a shared place identifier, or a shared normalized
\* name and address under different place identifiers
C3Pair(a, b) ==
    \/ SameId(a, b)
    \/ SameNameAddr(a, b) /\ a.place_id # b.place_id

C3Pairs ==
    LET norm == NormalizedRows
    IN  {p \in (1..Len(raw)) \X (1..Len(raw)) :
            p[1] < p[2] /\ C3Pair(norm[p[1]], norm[p[2]])}

\* C3 as stated: of any such pair exactly one record is kept, the earlier one.
C3_PairKeepsFirst ==
    pc = "deduped" =>
        LET alive == Survivors
        IN  \A p \in C3Pairs : p[1] \in alive /\ p[2] \notin alive

\* C3 (amended): of any such pair never both records are kept, and when the
\* earlier record is the first of the batch exactly the earlier one is kept.
C3_PairNeverBoth ==
    pc = "deduped" =>
        LET alive == Survivors
        IN  /\ df = reset_index(kept)
            /\ \A p \in C3Pairs :
                  /\ ~(p[1] \in alive /\ p[2] \in alive)
                  /\ (p[1] = 1 => p[1] \in alive /\ p[2] \notin alive)

C3_Witness ==
    /\ pc = "deduped"
    /\ Len(raw) = 2
    /\ SameId(Normalized(raw[1]), Normalized(raw[2]))
    /\ ~SameNameAddr(Normalized(raw[1]), Normalized(raw[2]))
    /\ Len(df) = 1
    /\ df[1] = raw[1]

\* the records reachable from the set S by at most n links of the set links
RECURSIVE GroupClosure(_, _, _)
GroupClosure(S, links, n) ==
    IF n = 0 THEN S
    ELSE GroupClosure(S \cup {k \in 1..Len(raw) :
                                 \E s \in S : <<s, k>> \in links \/ <<k, s>> \in links},
                      links, n - 1)

\* C4 as stated: of every duplicate group (records linked directly or through
\* other records) exactly one record survives, the earliest of the group.
C4_OnePerGroup ==
    pc = "deduped" =>
        LET alive == Survivors
            links == LinkedPairs
        IN  \A i \in 1..Len(raw) :
                LET g     == GroupClosure({i}, links, Len(raw))
                    first == CHOOSE m \in g : \A k \in g : m <= k
                IN  g \cap alive = {first}

\* C4 (amended): no two surviving records are directly linked, and the first
\* record of the batch survives.
C4_SurvivorsUnlinked ==
    pc = "deduped" =>
        LET alive == Survivors
            links == LinkedPairs
        IN  /\ df = reset_index(kept)
            /\ 1 \in alive
            /\ \A p \in links : ~(p[1] \in alive /\ p[2] \in alive)

C4_Witness ==
    /\ pc = "deduped"
    /\ LET alive == Survivors
           links == LinkedPairs
       IN  \E i, j \in alive :
              /\ i < j
              /\ j \in GroupClosure({i}, links, Len(raw))
              /\ <<i, j>> \notin links

\* the labels of a frame increase strictly
LabelsIncrease(frame) ==
    \A k \in 1..(Len(frame) - 1) : frame[k].index < frame[k + 1].index

\* C5: the output of remove_duplicates is a subsequence of its input: the
\* surviving records keep their input order and all their field values.
C5_Subsequence ==
    pc = "deduped" =>
        /\ df = reset_index(kept)
        /\ LabelsIncrease(kept)
        /\ \A k \in 1..Len(kept) :
              /\ kept[k].index + 1 \in 1..Len(raw)
              /\ kept[k] = raw[kept[k].index + 1]

C5_Witness ==
    /\ pc = "deduped"
    /\ Len(raw) = 3
    /\ Len(df) = 2
    /\ 2 \notin Survivors
    /\ df[2] = [raw[3] EXCEPT !.index = 1]

\* the frame the name+phone phase receives
BeforeNamePhone == DedupeNameAddr(DedupePlaceId(AddKeys(raw), columns))

\* C6: the name+phone phase never removes a record whose phone has fewer
\* than 10 digits (a missing phone has none).
C6_ShortPhoneExempt ==
    pc = "deduped" =>
        LET before == BeforeNamePhone
            after  == DedupeNamePhone(before)
            labels == LabelsOf(after)
        IN  /\ df = reset_index(DropKeys(after))
            /\ \A k \in 1..Len(before) :
                  Len(DigitsOnly(FillNa(before[k].phone))) < 10 =>
                      before[k].index \in labels

C6_Witness ==
    /\ pc = "deduped"
    /\ LET before == LabelsOf(BeforeNamePhone)
           alive  == Survivors
           norm   == NormalizedRows
       IN  \E i, j \in alive :
              /\ i < j
              /\ raw[i].index \in before /\ raw[j].index \in before
              /\ norm[i].name = norm[j].name
              /\ norm[i].digits = norm[j].digits
              /\ Len(norm[j].digits) < 10
              /\ Len(norm[j].digits) > 0

----------------------------------------------------------------------------
(* Properties of the pipeline, the filters and standardize_phone *)

\* the fields of a row are in the form standardize_fields gives them
IsNormalized(r) ==
    /\ r.phone = standardize_phone(r.phone)
    /\ r.address = standardize_address(r.address)
    /\ r.website = StandardizeWebsite(r.website)

\* C7 as stated: field normalization has been applied to every record before
\* the filters and the deduplication keys are evaluated on it.
C7_NormalizedBeforeFilters ==
    pc \in {"remove_closed", "filter_non_therapists", "remove_duplicates"} =>
        \A k \in 1..Len(df) : IsNormalized(df[k])

\* C7 (amended): main runs the closed-business filter, the non-therapist
\* filter and the deduplication on the raw field values, in this order, and
\* normalizes the fields only afterwards, on the records that are left.
C7_FiltersDedupThenNormalize ==
    [][/\ pc = "remove_closed" =>
             /\ df = raw
             /\ df' = remove_closed(df, keywords)
             /\ pc' = "filter_non_therapists"
       /\ pc = "filter_non_therapists" =>
             /\ df' = filter_non_therapists(df, keywords)
             /\ pc' = "remove_duplicates"
       /\ pc = "remove_duplicates" =>
             /\ df' = remove_duplicates(df, columns)
             /\ pc' = "standardize_fields"
       /\ pc = "standardize_fields" =>
             /\ df' = standardize_fields(df)
             /\ \A k \in 1..Len(df') : IsNormalized(df'[k])
             /\ pc' = "validate_urls_live"]_vars

C7_Witness ==
    /\ pc = "validate_urls_live"
    /\ Len(df) >= 1
    /\ Len(df) < Len(raw)
    /\ \E k \in 1..Len(df) : \A i \in 1..Len(raw) : df[k].phone # raw[i].phone

\* case-insensitive substring test
ContainsCI(text, phrase) == Contains(Lower(text), Lower(phrase))

\* the exclusion rule of C8 on one record
C8Excluded(r, kw) ==
    /\ \/ \E k \in 1..Len(kw.exclude_name_contains) :
             ContainsCI(FillNa(r.therapist_name), kw.exclude_name_contains[k])
       \/ \E k \in 1..Len(kw.exclude_category_contains) :
             ContainsCI(FillNa(r.category), kw.exclude_category_contains[k])
    /\ ~\E k \in 1..Len(kw.include_category_contains) :
             ContainsCI(FillNa(r.category), kw.include_category_contains[k])

C9Closed(r, kw) ==
    \E k \in 1..Len(kw.exclude_permanently_closed_indicators) :
        \/ ContainsCI(FillNa(r.status), kw.exclude_permanently_closed_indicators[k])
        \/ ContainsCI(FillNa(r.therapist_name), kw.exclude_permanently_closed_indicators[k])

C10_PhoneFormat ==
    pc = "phone_done" =>
        LET stripped == IF phone_in = NaN THEN <<>> ELSE DigitsOnly(phone_in)
            d == IF Len(stripped) = 11 /\ stripped[1] = "1"
                 THEN SubSeq(stripped, 2, 11) ELSE stripped
        IN  IF Len(d) = 10
            THEN /\ Len(phone_out) = 14
                 /\ phone_out[1] = "(" /\ phone_out[5] = ")" /\ phone_out[6] = " "
                 /\ phone_out[10] = "-"
                 /\ DigitsOnly(phone_out) = d
            ELSE phone_out = <<>>

C10_Witness ==
    /\ pc = "phone_done"
    /\ phone_in # NaN
    /\ Len(DigitsOnly(phone_in)) = 11
    /\ Len(phone_out) = 14

----------------------------------------------------------------------------
(* standardize_fields on frames of websites *)

MaxSites == 2

SchemePool == {<<>>, <<"h","t","t","p","s",":","/","/">>, <<"h","t","t","p",":","/","/">>, <<"f","t","p",":","/","/">>}

HostPool == {<<"a",".","c","o">>, <<"a">>, <<"a","-",".","c","o">>, <<"a"," ","b",".","c","o">>}

TailPool == {<<>>, <<"/","p">>, <<"/","p"," ","q">>}

\* website cells: scheme, host and tail in every combination, a missing cell,
\* an empty cell, a lone slash and a padded bare domain with a trailing slash
WebsitePool ==
    {s \o h \o t : s \in SchemePool, h \in HostPool, t \in TailPool}
        \cup {NaN, <<>>, <<"/">>, <<" ","a",".","c","o","/"," ">>}

SiteRows ==
    [index : {0}, place_id : {NaN}, therapist_name : {NameJane},
     category : {NaN}, status : {StatusOpen}, phone : {PhoneDashed},
     address : {AddrMain}, website : WebsitePool]

\* main has reached step 4 with a frame of 1..MaxSites rows
InitFields ==
    /\ \E n \in 1..MaxSites : \E f \in [1..n -> SiteRows] : raw = reset_index(f)
    /\ df = raw
    /\ columns = AllColumns
    /\ keywords = NoKeywords
    /\ kept = <<>>
    /\ again = <<>>
    /\ pc = "standardize_fields"
    /\ phone_in = NaN
    /\ phone_out = NaN
    /\ TextIdle
    /\ RunIdle

NextFields == StandardizeFields

SpecFields == InitFields /\ [][NextFields]_vars

\* C11: standardize_fields leaves every website either empty or a string that
\* passes is_valid_url; a website whose normalized form fails is_valid_url
\* becomes the empty string, and the frame keeps all its records.
C11_WebsiteEmptyOrValid ==
    [][pc = "standardize_fields" =>
          /\ Len(df') = Len(df)
          /\ \A k \in 1..Len(df) :
                /\ df'[k].website = <<>> \/ is_valid_url(df'[k].website)
                /\ ~is_valid_url(normalize_url(df[k].website)) =>
                       df'[k].website = <<>>
                /\ df'[k].index = df[k].index
                /\ df'[k].therapist_name = df[k].therapist_name]_vars

C11_Witness ==
    /\ pc = "validate_urls_live"
    /\ Len(df) = 2
    /\ raw[1].website = <<"f","t","p",":","/","/","a",".","c","o","/","p">>
    /\ df[1].website = <<>>
    /\ raw[2].website = <<" ","a",".","c","o","/"," ">>
    /\ df[2].website = <<"h","t","t","p","s",":","/","/","a",".","c","o">>

----------------------------------------------------------------------------
(* Alias lookups: load_insurance_lookup, load_specialization_lookup,
   load_approach_lookup *)

\* the cleaning pipeline is not running
PipelineIdle ==
    /\ raw = <<>> /\ df = <<>> /\ kept = <<>> /\ again = <<>>
    /\ columns = {} /\ keywords = NoKeywords
    /\ phone_in = NaN /\ phone_out = NaN

pipelineVars == <<raw, columns, keywords, df, kept, again, phone_in, phone_out>>

\* PutAliases that leaves an alias already in the table as it is
PutAliasesKeepFirst(table, canonical, aliases) ==
    LET keys == {Strip(Lower(aliases[k])) : k \in 1..Len(aliases)}
    IN  [a \in (DOMAIN table) \cup keys |->
            IF a \in DOMAIN table THEN table[a] ELSE canonical]

\* a table {alias -> canonical} with the keys of one more entry written over it
PutAliases(table, canonical, aliases) ==
    LET keys == {Strip(Lower(aliases[k])) : k \in 1..Len(aliases)}
    IN  [a \in (DOMAIN table) \cup keys |->
            IF a \in keys THEN canonical ELSE table[a]]

\* the loop over the entries of one configuration list, in configuration order
RECURSIVE BuildLookup(_, _)
BuildLookup(entries, table) ==
    IF entries = <<>> THEN table
    ELSE BuildLookup(Tail(entries),
                     PutAliases(table, Head(entries).canonical_name,
                                Head(entries).aliases))

load_insurance_lookup(cfg) == BuildLookup(cfg.insurance_providers, <<>>)

load_specialization_lookup(cfg) == BuildLookup(cfg.specializations, <<>>)

load_approach_lookup(cfg) == BuildLookup(cfg.therapy_approaches, <<>>)

MaxEntries == 2

CanonCog == <<"C","o","g">>

CanonArt == <<"A","r","t">>

AliasPool == {<<"C","B","T">>, <<" ","c","b","t"," ">>, <<"a","r","t">>}

AliasLists == {<<a>> : a \in AliasPool} \cup {<<a, b>> : a, b \in AliasPool}

Entries == [canonical_name : {CanonCog, CanonArt}, aliases : AliasLists]

ConfigLists == {"insurance_providers", "specializations", "therapy_approaches"}

DefaultEntries == <<[canonical_name |-> CanonArt, aliases |-> <<<<"a","r","t">>>>]>>

\* enrich_data.main is about to load the lookups; one list of the
\* configuration varies over 1..MaxEntries entries
InitLookup ==
    /\ \E n \in 1..MaxEntries : \E list \in [1..n -> Entries] :
          \E which \in ConfigLists :
             config = [k \in ConfigLists |->
                          IF k = which THEN list ELSE DefaultEntries]
    /\ lookup = [insurance |-> <<>>, specialization |-> <<>>, approach |-> <<>>]
    /\ text_in = NaN
    /\ result = NaN
    /\ pc = "load_insurance_lookup"
    /\ PipelineIdle
    /\ RunIdle

LoadInsuranceLookup ==
    /\ pc = "load_insurance_lookup"
    /\ lookup' = [lookup EXCEPT !.insurance = load_insurance_lookup(config)]
    /\ pc' = "load_specialization_lookup"
    /\ UNCHANGED <<runVars, config, text_in, result, pipelineVars>>

LoadSpecializationLookup ==
    /\ pc = "load_specialization_lookup"
    /\ lookup' = [lookup EXCEPT !.specialization = load_specialization_lookup(config)]
    /\ pc' = "load_approach_lookup"
    /\ UNCHANGED <<runVars, config, text_in, result, pipelineVars>>

LoadApproachLookup ==
    /\ pc = "load_approach_lookup"
    /\ lookup' = [lookup EXCEPT !.approach = load_approach_lookup(config)]
    /\ pc' = "lookups_loaded"
    /\ UNCHANGED <<runVars, config, text_in, result, pipelineVars>>

NextLookup == LoadInsuranceLookup \/ LoadSpecializationLookup \/ LoadApproachLookup

SpecLookup == InitLookup /\ [][NextLookup]_vars

\* the normalized aliases of a configuration list
NormAliases(entries) ==
    UNION {{Strip(Lower(entries[e].aliases[k])) : k \in 1..Len(entries[e].aliases)} :
              e \in 1..Len(entries)}

\* the entries of a list that name the normalized alias a
EntriesNaming(entries, a) ==
    {e \in 1..Len(entries) :
        \E k \in 1..Len(entries[e].aliases) : Strip(Lower(entries[e].aliases[k])) = a}

\* the table holds exactly the normalized aliases of the list, each with the
\* canonical name of the last entry that names it
LastEntryWins(entries, table) ==
    /\ DOMAIN table = NormAliases(entries)
    /\ \A a \in DOMAIN table :
          LET named == EntriesNaming(entries, a)
              last  == CHOOSE e \in named : \A o \in named : o <= e
          IN  table[a] = entries[last].canonical_name

\* C12: each lookup builder maps every lowercased and trimmed alias of its
\* configuration list to one canonical name, the one of the last entry of the
\* list that names the alias.
C12_LastEntryWins ==
    pc = "lookups_loaded" =>
        /\ LastEntryWins(config.insurance_providers, lookup.insurance)
        /\ LastEntryWins(config.specializations, lookup.specialization)
        /\ LastEntryWins(config.therapy_approaches, lookup.approach)

C12_Witness ==
    /\ pc = "lookups_loaded"
    /\ Len(config.specializations) = 2
    /\ config.specializations[1] =
          [canonical_name |-> CanonCog, aliases |-> <<<<"C","B","T">>, <<"a","r","t">>>>]
    /\ config.specializations[2] =
          [canonical_name |-> CanonArt, aliases |-> <<<<" ","c","b","t"," ">>>>]
    /\ lookup.specialization[<<"c","b","t">>] = CanonArt
    /\ lookup.specialization[<<"a","r","t">>] = CanonCog

----------------------------------------------------------------------------
(* Alias matching: match_insurance, match_specializations *)

\* Python None
None == <<"None">>

\* the printable ASCII characters in code point order, without the double quote, the backslash and the backquote
CodePoints ==
    <<" ","!","#","$","%","&","'","(",")","*","+",",","-",".","/",
      "0","1","2","3","4","5","6","7","8","9",":",";","<","=",">","?","@",
      "A","B","C","D","E","F","G","H","I","J","K","L","M",
      "N","O","P","Q","R","S","T","U","V","W","X","Y","Z","[","]","^","_",
      "a","b","c","d","e","f","g","h","i","j","k","l","m",
      "n","o","p","q","r","s","t","u","v","w","x","y","z","{","|","}","~">>

Ord(c) == CHOOSE k \in 1..Len(CodePoints) : CodePoints[k] = c

\* s < t for Python strings
StrLess(s, t) ==
    LET n    == IF Len(s) < Len(t) THEN Len(s) ELSE Len(t)
        diff == {i \in 1..n : s[i] # t[i]}
    IN  IF diff = {} THEN Len(s) < Len(t)
        ELSE LET d == CHOOSE i \in diff : \A j \in diff : i <= j
             IN  Ord(s[d]) < Ord(t[d])

\* sorted(found) for a set of strings
RECURSIVE Sorted(_)
Sorted(found) ==
    IF found = {} THEN <<>>
    ELSE LET m == CHOOSE x \in found : \A y \in found \ {x} : StrLess(x, y)
         IN  <<m>> \o Sorted(found \ {m})

\* the regex assertion \b between the characters i and i + 1 of s
WordBoundaryAt(s, i) ==
    (i >= 1 /\ IsWordChar(s[i])) # (i < Len(s) /\ IsWordChar(s[i + 1]))

\* re.search(r"\b" + re.escape(alias) + r"\b", s)
SearchWord(s, alias) ==
    \E i \in 0..(Len(s) - Len(alias)) :
        /\ SubSeq(s, i + 1, i + Len(alias)) = alias
        /\ WordBoundaryAt(s, i)
        /\ WordBoundaryAt(s, i + Len(alias))

match_insurance(t, table) ==
    IF t = None \/ t = <<>> THEN <<>>
    ELSE LET text_lower == Lower(t)
             found == {table[a] : a \in {a \in DOMAIN table : Contains(text_lower, a)}}
         IN  Sorted(found)

\* match_specializations without the word-boundary branch
match_specializations_substring(t, table) == match_insurance(t, table)

match_specializations(t, table) ==
    IF t = None \/ t = <<>> THEN <<>>
    ELSE LET text_lower == Lower(t)
             hit(a) == IF Len(a) <= 3 THEN SearchWord(text_lower, a)
                       ELSE Contains(text_lower, a)
             found == {table[a] : a \in {a \in DOMAIN table : hit(a)}}
         IN  Sorted(found)

----------------------------------------------------------------------------
(* Phrase classifiers: detect_accepting_patients, detect_telehealth,
   detect_sliding_scale *)

\* any(phrase in s for phrase in phrases)
AnyIn(s, phrases) == \E k \in 1..Len(phrases) : Contains(s, phrases[k])

AcceptingNo ==
    <<<<"n","o","t"," ","a","c","c","e","p","t","i","n","g"," ","n","e","w">>, <<"n","o","t"," ","c","u","r","r","e","n","t","l","y"," ","a","c","c","e","p","t","i","n","g">>, <<"n","o"," ","l","o","n","g","e","r"," ","a","c","c","e","p","t","i","n","g">>,
      <<"p","r","a","c","t","i","c","e"," ","i","s"," ","f","u","l","l">>, <<"c","a","s","e","l","o","a","d"," ","i","s"," ","f","u","l","l">>, <<"c","u","r","r","e","n","t","l","y"," ","f","u","l","l">>>>

AcceptingWaitlist ==
    <<<<"w","a","i","t","l","i","s","t">>, <<"w","a","i","t"," ","l","i","s","t">>, <<"w","a","i","t","i","n","g"," ","l","i","s","t">>, <<"j","o","i","n"," ","t","h","e"," ","w","a","i","t","l","i","s","t">>>>

AcceptingYes ==
    <<<<"a","c","c","e","p","t","i","n","g"," ","n","e","w"," ","p","a","t","i","e","n","t","s">>, <<"a","c","c","e","p","t","i","n","g"," ","n","e","w"," ","c","l","i","e","n","t","s">>, <<"c","u","r","r","e","n","t","l","y"," ","a","c","c","e","p","t","i","n","g">>,
      <<"n","o","w"," ","a","c","c","e","p","t","i","n","g">>, <<"w","e","l","c","o","m","i","n","g"," ","n","e","w">>, <<"t","a","k","i","n","g"," ","n","e","w"," ","p","a","t","i","e","n","t","s">>,
      <<"t","a","k","i","n","g"," ","n","e","w"," ","c","l","i","e","n","t","s">>, <<"o","p","e","n"," ","t","o"," ","n","e","w">>, <<"a","v","a","i","l","a","b","i","l","i","t","y"," ","f","o","r"," ","n","e","w">>,
      <<"s","c","h","e","d","u","l","e"," ","a","n"," ","a","p","p","o","i","n","t","m","e","n","t">>, <<"b","o","o","k"," ","a","n"," ","a","p","p","o","i","n","t","m","e","n","t">>, <<"b","o","o","k"," ","a"," ","s","e","s","s","i","o","n">>,
      <<"f","r","e","e"," ","c","o","n","s","u","l","t","a","t","i","o","n">>, <<"c","o","m","p","l","i","m","e","n","t","a","r","y"," ","c","o","n","s","u","l","t","a","t","i","o","n">>>>

\* detect_accepting_patients looking at the positive phrases first
detect_accepting_patients_yes_first(t) ==
    IF t = None \/ t = <<>> THEN <<"U","n","k","n","o","w","n">>
    ELSE LET text_lower == Lower(t)
         IN  IF AnyIn(text_lower, AcceptingYes) THEN <<"Y","e","s">>
             ELSE IF AnyIn(text_lower, AcceptingNo) THEN <<"N","o">>
             ELSE IF AnyIn(text_lower, AcceptingWaitlist) THEN <<"W","a","i","t","l","i","s","t">>
             ELSE <<"U","n","k","n","o","w","n">>

detect_accepting_patients(t) ==
    IF t = None \/ t = <<>> THEN <<"U","n","k","n","o","w","n">>
    ELSE LET text_lower == Lower(t)
         IN  IF AnyIn(text_lower, AcceptingNo) THEN <<"N","o">>
             ELSE IF AnyIn(text_lower, AcceptingWaitlist) THEN <<"W","a","i","t","l","i","s","t">>
             ELSE IF AnyIn(text_lower, AcceptingYes) THEN <<"Y","e","s">>
             ELSE <<"U","n","k","n","o","w","n">>

TelehealthVideo ==
    <<<<"t","e","l","e","h","e","a","l","t","h">>, <<"t","e","l","e","t","h","e","r","a","p","y">>, <<"v","i","d","e","o"," ","s","e","s","s","i","o","n">>, <<"v","i","d","e","o"," ","t","h","e","r","a","p","y">>,
      <<"o","n","l","i","n","e"," ","t","h","e","r","a","p","y">>, <<"o","n","l","i","n","e"," ","c","o","u","n","s","e","l","i","n","g">>, <<"v","i","r","t","u","a","l"," ","s","e","s","s","i","o","n">>,
      <<"v","i","r","t","u","a","l"," ","t","h","e","r","a","p","y">>, <<"v","i","r","t","u","a","l"," ","a","p","p","o","i","n","t","m","e","n","t">>, <<"d","o","x","y">>, <<"z","o","o","m">>,
      <<"s","i","m","p","l","e","p","r","a","c","t","i","c","e"," ","t","e","l","e","h","e","a","l","t","h">>, <<"r","e","m","o","t","e"," ","t","h","e","r","a","p","y">>>>

TelehealthPhone ==
    <<<<"p","h","o","n","e"," ","s","e","s","s","i","o","n">>, <<"p","h","o","n","e"," ","t","h","e","r","a","p","y">>, <<"t","e","l","e","p","h","o","n","e"," ","s","e","s","s","i","o","n">>,
      <<"t","e","l","e","p","h","o","n","e"," ","t","h","e","r","a","p","y">>, <<"p","h","o","n","e"," ","c","o","u","n","s","e","l","i","n","g">>>>

TelehealthNo ==
    <<<<"i","n","-","p","e","r","s","o","n"," ","o","n","l","y">>, <<"i","n"," ","p","e","r","s","o","n"," ","o","n","l","y">>, <<"o","f","f","i","c","e"," ","v","i","s","i","t","s"," ","o","n","l","y">>,
      <<"n","o"," ","t","e","l","e","h","e","a","l","t","h">>, <<"d","o","e","s"," ","n","o","t"," ","o","f","f","e","r"," ","t","e","l","e","h","e","a","l","t","h">>>>

\* detect_telehealth looking at the negative phrases only when no indicator is found
detect_telehealth_no_last(t) ==
    IF t = None \/ t = <<>> THEN <<"U","n","k","n","o","w","n">>
    ELSE LET text_lower == Lower(t)
             has_video  == AnyIn(text_lower, TelehealthVideo)
             has_phone  == AnyIn(text_lower, TelehealthPhone)
         IN  IF has_video /\ has_phone THEN <<"Y","e","s"," ","-"," ","B","o","t","h">>
             ELSE IF has_video THEN <<"Y","e","s"," ","-"," ","V","i","d","e","o">>
             ELSE IF has_phone THEN <<"Y","e","s"," ","-"," ","P","h","o","n","e">>
             ELSE IF AnyIn(text_lower, TelehealthNo) THEN <<"N","o">>
             ELSE <<"U","n","k","n","o","w","n">>

detect_telehealth(t) ==
    IF t = None \/ t = <<>> THEN <<"U","n","k","n","o","w","n">>
    ELSE LET text_lower == Lower(t)
             has_video  == AnyIn(text_lower, TelehealthVideo)
             has_phone  == AnyIn(text_lower, TelehealthPhone)
         IN  IF AnyIn(text_lower, TelehealthNo) THEN <<"N","o">>
             ELSE IF has_video /\ has_phone THEN <<"Y","e","s"," ","-"," ","B","o","t","h">>
             ELSE IF has_video THEN <<"Y","e","s"," ","-"," ","V","i","d","e","o">>
             ELSE IF has_phone THEN <<"Y","e","s"," ","-"," ","P","h","o","n","e">>
             ELSE <<"U","n","k","n","o","w","n">>

SlidingYes ==
    <<<<"s","l","i","d","i","n","g"," ","s","c","a","l","e">>, <<"s","l","i","d","i","n","g"," ","f","e","e">>, <<"i","n","c","o","m","e","-","b","a","s","e","d">>, <<"r","e","d","u","c","e","d"," ","f","e","e">>,
      <<"r","e","d","u","c","e","d"," ","r","a","t","e">>, <<"f","i","n","a","n","c","i","a","l"," ","h","a","r","d","s","h","i","p">>, <<"a","b","i","l","i","t","y"," ","t","o"," ","p","a","y">>,
      <<"a","f","f","o","r","d","a","b","l","e"," ","r","a","t","e","s">>>>

SlidingNo ==
    <<<<"n","o"," ","s","l","i","d","i","n","g"," ","s","c","a","l","e">>, <<"d","o","e","s"," ","n","o","t"," ","o","f","f","e","r"," ","s","l","i","d","i","n","g">>, <<"d","o"," ","n","o","t"," ","o","f","f","e","r"," ","s","l","i","d","i","n","g">>>>

\* detect_sliding_scale looking at the positive phrases first
detect_sliding_scale_yes_first(t) ==
    IF t = None \/ t = <<>> THEN <<"U","n","k","n","o","w","n">>
    ELSE LET text_lower == Lower(t)
         IN  IF AnyIn(text_lower, SlidingYes) THEN <<"Y","e","s">>
             ELSE IF AnyIn(text_lower, SlidingNo) THEN <<"N","o">>
             ELSE <<"U","n","k","n","o","w","n">>

detect_sliding_scale(t) ==
    IF t = None \/ t = <<>> THEN <<"U","n","k","n","o","w","n">>
    ELSE LET text_lower == Lower(t)
         IN  IF AnyIn(text_lower, SlidingNo) THEN <<"N","o">>
             ELSE IF AnyIn(text_lower, SlidingYes) THEN <<"Y","e","s">>
             ELSE <<"U","n","k","n","o","w","n">>

AcceptingFragments ==
    {<<"P","r","a","c","t","i","c","e"," ","i","s"," ","f","u","l","l">>, <<"a","c","c","e","p","t","i","n","g"," ","n","e","w"," ","c","l","i","e","n","t","s">>, <<"W","a","i","t","l","i","s","t">>,
     <<"n","o","t"," ","c","u","r","r","e","n","t","l","y"," ","a","c","c","e","p","t","i","n","g">>, <<"b","o","o","k"," ","a"," ","s","e","s","s","i","o","n">>, <<"h","e","l","l","o">>}

TelehealthFragments ==
    {<<"I","n","-","p","e","r","s","o","n"," ","o","n","l","y">>, <<"Z","o","o","m">>, <<"p","h","o","n","e"," ","s","e","s","s","i","o","n","s">>, <<"n","o"," ","t","e","l","e","h","e","a","l","t","h">>,
     <<"t","e","l","e","t","h","e","r","a","p","y">>, <<"h","e","l","l","o">>}

SlidingFragments ==
    {<<"N","o"," ","s","l","i","d","i","n","g"," ","s","c","a","l","e">>, <<"S","l","i","d","i","n","g"," ","s","c","a","l","e">>, <<"r","e","d","u","c","e","d"," ","f","e","e">>,
     <<"d","o"," ","n","o","t"," ","o","f","f","e","r"," ","s","l","i","d","i","n","g">>, <<"h","e","l","l","o">>}

\* result["accepting_new_patients"] = detect_accepting_patients(text)
DetectAcceptingPatients ==
    /\ pc = "extract"
    /\ result' = detect_accepting_patients(text_in)
    /\ pc' = "accepting_new_patients"
    /\ UNCHANGED <<runVars, config, lookup, text_in, pipelineVars>>

\* result["telehealth"] = detect_telehealth(text)
DetectTelehealth ==
    /\ pc = "extract"
    /\ result' = detect_telehealth(text_in)
    /\ pc' = "telehealth"
    /\ UNCHANGED <<runVars, config, lookup, text_in, pipelineVars>>

\* result["sliding_scale"] = detect_sliding_scale(text)
DetectSlidingScale ==
    /\ pc = "extract"
    /\ result' = detect_sliding_scale(text_in)
    /\ pc' = "sliding_scale"
    /\ UNCHANGED <<runVars, config, lookup, text_in, pipelineVars>>

----------------------------------------------------------------------------
(* extract_price_range *)

\* int() of a string of digits
RECURSIVE ToInt(_)
ToInt(d) ==
    IF d = <<>> THEN 0
    ELSE 10 * ToInt(SubSeq(d, 1, Len(d) - 1))
             + (CHOOSE v \in 0..9 : DigitSeq[v + 1] = d[Len(d)])

\* the index after the run of \s that starts at i
RECURSIVE SkipSpaces(_, _)
SkipSpaces(s, i) ==
    IF i <= Len(s) /\ s[i] \in WhiteChars THEN SkipSpaces(s, i + 1) ELSE i

\* the length of the run of \d that starts at i, 4 at most: \d{2,4} is greedy
RECURSIVE DigitRun(_, _, _)
DigitRun(s, i, most) ==
    IF most > 0 /\ i <= Len(s) /\ s[i] \in DigitChars
    THEN 1 + DigitRun(s, i + 1, most - 1) ELSE 0

\* the characters of the class [-to] with the en dash and the em dash, which
\* are the one-character strings "EnDash" and "EmDash" here
ConnectorChars == {"-", "EnDash", "EmDash", "t", "o"}

\* the index after the run of connector characters that starts at i
RECURSIVE SkipConnectors(_, _)
SkipConnectors(s, i) ==
    IF i <= Len(s) /\ s[i] \in ConnectorChars THEN SkipConnectors(s, i + 1) ELSE i

\* one attempt of \$\s*(\d{2,4})\s*(?:[connector]+\s*\$?\s*(\d{2,4}))? at the "$" at i:
\* whether it matches, its two groups and the index after the match
MatchPriceAt(s, i) ==
    LET first_at == SkipSpaces(s, i + 1)
        first_n  == DigitRun(s, first_at, 4)
        after    == SkipSpaces(s, first_at + first_n)
        joined   == SkipConnectors(s, after)
        dollar   == SkipSpaces(s, joined)
        second_at == SkipSpaces(s, IF dollar <= Len(s) /\ s[dollar] = "$"
                                   THEN dollar + 1 ELSE dollar)
        second_n == DigitRun(s, second_at, 4)
    IN  IF first_n < 2
        THEN [found |-> FALSE, groups |-> <<>>, next |-> i + 1]
        ELSE IF joined > after /\ second_n >= 2
        THEN [found  |-> TRUE,
              groups |-> <<SubSeq(s, first_at, first_at + first_n - 1),
                           SubSeq(s, second_at, second_at + second_n - 1)>>,
              next   |-> second_at + second_n]
        ELSE [found  |-> TRUE,
              groups |-> <<SubSeq(s, first_at, first_at + first_n - 1), <<>>>>,
              next   |-> after]

\* re.findall(pattern, text): the matches from left to right, without overlap
RECURSIVE FindAllPrices(_, _)
FindAllPrices(s, i) ==
    IF i > Len(s) THEN <<>>
    ELSE IF s[i] # "$" THEN FindAllPrices(s, i + 1)
    ELSE LET m == MatchPriceAt(s, i)
         IN  IF ~m.found THEN FindAllPrices(s, i + 1)
             ELSE <<m.groups>> \o FindAllPrices(s, m.next)

\* the list prices: int(match[0]) and, if the second group matched, int(match[1])
RECURSIVE PricesOf(_)
PricesOf(matches) ==
    IF matches = <<>> THEN <<>>
    ELSE (IF Head(matches)[2] # <<>>
          THEN <<ToInt(Head(matches)[1]), ToInt(Head(matches)[2])>>
          ELSE <<ToInt(Head(matches)[1])>>) \o PricesOf(Tail(matches))

\* an int that may be None is the set of its values: None is {}, 90 is {90}
NoInt == {}

Min(values) == CHOOSE v \in values : \A w \in values : v <= w

Max(values) == CHOOSE v \in values : \A w \in values : w <= v

\* extract_price_range without the filter on the band 20..600
extract_price_range_unfiltered(t) ==
    IF t = None \/ t = <<>> THEN <<NoInt, NoInt>>
    ELSE LET prices == PricesOf(FindAllPrices(t, 1))
             valid  == {prices[k] : k \in 1..Len(prices)}
         IN  IF valid = {} THEN <<NoInt, NoInt>> ELSE <<{Min(valid)}, {Max(valid)}>>

extract_price_range(t) ==
    IF t = None \/ t = <<>> THEN <<NoInt, NoInt>>
    ELSE LET matches == FindAllPrices(t, 1)
             prices  == PricesOf(matches)
             valid   == {p \in {prices[k] : k \in 1..Len(prices)} : 20 <= p /\ p <= 600}
         IN  IF matches = <<>> THEN <<NoInt, NoInt>>
             ELSE IF valid = {} THEN <<NoInt, NoInt>>
             ELSE <<{Min(valid)}, {Max(valid)}>>

PriceFragments ==
    {<<"S","e","s","s","i","o","n","s"," ","a","r","e"," ","$","1","5","0",",">>, <<"s","l","i","d","i","n","g"," ","s","c","a","l","e"," ","d","o","w","n"," ","t","o"," ","$","9","0">>, <<"R","e","n","t"," ","i","s"," ","$","5","0","0","0">>,
     <<"$","1","0","0","-","$","2","0","0">>, <<"$"," ","8","0"," ","t","o"," ","1","2","0">>, <<"$","1",",","5","0","0">>, <<"$","5">>, <<"f","e","e"," ","3","0","0">>,
     <<"$","1","9">>, <<"$","6","0","0">>, <<"$","6","0","1"," ","-"," ","2","0">>, <<"t","o"," ","$","2","0">>}

\* price_min, price_max = extract_price_range(text)
ExtractPriceRange ==
    /\ pc = "extract"
    /\ result' = extract_price_range(text_in)
    /\ pc' = "price_range"
    /\ UNCHANGED <<runVars, config, lookup, text_in, pipelineVars>>

\* alias tables of the enrichment runs
EnrichConfig ==
    [insurance_providers |->
        <<[canonical_name |-> <<"H","A","P">>, aliases |-> <<<<"H","A","P">>, <<"H","e","a","l","t","h"," ","A","l","l","i","a","n","c","e">>>>],
          [canonical_name |-> <<"A","e","t","n","a">>, aliases |-> <<<<"A","e","t","n","a">>>>]>>,
     specializations |->
        <<[canonical_name |-> <<"A","r","t"," ","T","h","e","r","a","p","y">>, aliases |-> <<<<"a","r","t">>, <<"a","r","t"," ","t","h","e","r","a","p","y">>>>],
          [canonical_name |-> <<"A","n","x","i","e","t","y">>, aliases |-> <<<<"a","n","x","i","e","t","y">>, <<"G","A","D">>>>]>>,
     therapy_approaches |->
        <<[canonical_name |-> <<"D","B","T">>, aliases |-> <<<<"D","B","T">>>>],
          [canonical_name |-> <<"C","B","T">>, aliases |-> <<<<"C","B","T">>, <<"c","o","g","n","i","t","i","v","e">>>>]>>]

EnrichLookup ==
    [insurance      |-> load_insurance_lookup(EnrichConfig),
     specialization |-> load_specialization_lookup(EnrichConfig),
     approach       |-> load_approach_lookup(EnrichConfig)]

MaxWords == 2

\* the texts of 1..MaxWords fragments, joined by single spaces
Phrases(fragments) ==
    {Join(w, <<" ">>) : w \in UNION {[1..n -> fragments] : n \in 1..MaxWords}}

MatchFragments ==
    {<<"C","B","T">>, <<"i","s"," ","g","r","e","a","t">>, <<"p","a","r","t","y">>, <<"a","r","t">>, <<"(","A","r","t",")">>, <<"a","r","t","_">>,
     <<"A","n","x","i","e","t","y">>, <<"G","A","D">>, <<"g","a","d","g","e","t">>, <<"d","b","t",",">>, <<"C","o","g","n","i","t","i","v","e">>,
     <<"h","a","p","p","y">>, <<"H","A","P">>, <<"A","e","t","n","a">>}

TextPool ==
    Phrases(MatchFragments) \cup Phrases(AcceptingFragments)
        \cup Phrases(TelehealthFragments) \cup Phrases(SlidingFragments)
        \cup Phrases(PriceFragments)
        \cup {None, <<>>}

\* enrich_from_text is about to be called on a text
InitText ==
    /\ text_in \in TextPool
    /\ config = EnrichConfig
    /\ lookup = EnrichLookup
    /\ result = NaN
    /\ pc = "extract"
    /\ PipelineIdle
    /\ RunIdle

\* insurances = match_insurance(text, insurance_lookup)
MatchInsurance ==
    /\ pc = "extract"
    /\ result' = match_insurance(text_in, lookup.insurance)
    /\ pc' = "insurance_accepted"
    /\ UNCHANGED <<runVars, config, lookup, text_in, pipelineVars>>

\* specs = match_specializations(text, spec_lookup)
MatchSpecializations ==
    /\ pc = "extract"
    /\ result' = match_specializations(text_in, lookup.specialization)
    /\ pc' = "specializations"
    /\ UNCHANGED <<runVars, config, lookup, text_in, pipelineVars>>

\* approaches = match_specializations(text, approach_lookup)
MatchApproaches ==
    /\ pc = "extract"
    /\ result' = match_specializations(text_in, lookup.approach)
    /\ pc' = "therapy_approaches"
    /\ UNCHANGED <<runVars, config, lookup, text_in, pipelineVars>>

NextText ==
    \/ MatchInsurance
    \/ MatchSpecializations
    \/ MatchApproaches
    \/ DetectAcceptingPatients
    \/ DetectTelehealth
    \/ DetectSlidingScale
    \/ ExtractPriceRange

SpecText == InitText /\ [][NextText]_vars

\* the alias a occurs in s with a word boundary on both sides
OccursAsWord(s, a) ==
    \E i \in 0..(Len(s) - Len(a)) :
        /\ SubSeq(s, i + 1, i + Len(a)) = a
        /\ WordBoundaryAt(s, i)
        /\ WordBoundaryAt(s, i + Len(a))

\* the canonical names the short-alias rule reports for a text
ShortAliasRule(t, table) ==
    LET low == Lower(t)
    IN  {table[a] : a \in {a \in DOMAIN table :
                              IF Len(a) <= 3 THEN OccursAsWord(low, a)
                              ELSE Contains(low, a)}}

\* the sequence lists the set names, each once, in increasing order
SortedListOf(list, names) ==
    /\ {list[k] : k \in 1..Len(list)} = names
    /\ \A k \in 1..(Len(list) - 1) : StrLess(list[k], list[k + 1])

\* C13: match_specializations reports the canonical name of an alias of at
\* most 3 characters only where the alias stands between word boundaries in
\* the lowercased text, and of a longer alias wherever it is a substring; the
\* result is the sorted list of the distinct canonical names hit.
C13_ShortAliasAtWordBoundary ==
    /\ (pc = "specializations" /\ text_in # None) =>
          SortedListOf(result, ShortAliasRule(text_in, lookup.specialization))
    /\ (pc = "therapy_approaches" /\ text_in # None) =>
          SortedListOf(result, ShortAliasRule(text_in, lookup.approach))

C13_Witness ==
    /\ pc = "specializations"
    /\ text_in = <<"p","a","r","t","y"," ","(","A","r","t",")">>
    /\ result = <<<<"A","r","t"," ","T","h","e","r","a","p","y">>>>

\* C14: match_insurance reports the canonical insurer of an alias of at most
\* 3 characters only when the alias stands between word boundaries in the
\* text, never when it occurs only inside a longer word.
C14_InsuranceShortAliasAtWordBoundary ==
    (pc = "insurance_accepted" /\ text_in # None) =>
        \A k \in 1..Len(result) :
            result[k] \in ShortAliasRule(text_in, lookup.insurance)

\* the lowercased text a classifier scans; an absent text has no phrase
Scanned(t) == IF t = None THEN <<>> ELSE Lower(t)

\* C15: detect_accepting_patients returns "No" when the text has a negative
\* phrase, whatever else it has and wherever; otherwise "Waitlist" when it has
\* a waitlist phrase; otherwise "Yes" when it has a positive phrase; otherwise,
\* also for an empty or absent text, "Unknown".
C15_AcceptingPriority ==
    pc = "accepting_new_patients" =>
        LET low      == Scanned(text_in)
            negative == AnyIn(low, AcceptingNo)
            waitlist == AnyIn(low, AcceptingWaitlist)
            positive == AnyIn(low, AcceptingYes)
        IN  /\ negative => result = <<"N","o">>
            /\ (~negative /\ waitlist) => result = <<"W","a","i","t","l","i","s","t">>
            /\ (~negative /\ ~waitlist /\ positive) => result = <<"Y","e","s">>
            /\ (~negative /\ ~waitlist /\ ~positive) => result = <<"U","n","k","n","o","w","n">>

C15_Witness ==
    /\ pc = "accepting_new_patients"
    /\ text_in = <<"a","c","c","e","p","t","i","n","g"," ","n","e","w"," ","c","l","i","e","n","t","s"," ","P","r","a","c","t","i","c","e"," ","i","s"," ","f","u","l","l">>
    /\ result = <<"N","o">>

\* C16: detect_telehealth returns "No" when the text has a negative phrase,
\* even with video or phone indicators; otherwise "Yes - Both", "Yes - Video",
\* "Yes - Phone" or "Unknown" exactly as both, only a video, only a phone or no
\* indicator occurs.
C16_TelehealthNegativeFirst ==
    pc = "telehealth" =>
        LET low      == Scanned(text_in)
            negative == AnyIn(low, TelehealthNo)
            video    == AnyIn(low, TelehealthVideo)
            phone    == AnyIn(low, TelehealthPhone)
        IN  /\ negative => result = <<"N","o">>
            /\ ~negative =>
                  /\ result = <<"Y","e","s"," ","-"," ","B","o","t","h">> <=> (video /\ phone)
                  /\ result = <<"Y","e","s"," ","-"," ","V","i","d","e","o">> <=> (video /\ ~phone)
                  /\ result = <<"Y","e","s"," ","-"," ","P","h","o","n","e">> <=> (~video /\ phone)
                  /\ result = <<"U","n","k","n","o","w","n">> <=> (~video /\ ~phone)

C16_Witness ==
    /\ pc = "telehealth"
    /\ text_in = <<"I","n","-","p","e","r","s","o","n"," ","o","n","l","y"," ","Z","o","o","m">>
    /\ result = <<"N","o">>

\* C17: detect_sliding_scale returns "No" when the text has a negative phrase,
\* "Yes" when it has a positive phrase and no negative one, "Unknown"
\* otherwise; a text with "no sliding scale" never gives "Yes".
C17_SlidingNegativeFirst ==
    pc = "sliding_scale" =>
        LET low      == Scanned(text_in)
            negative == AnyIn(low, SlidingNo)
            positive == AnyIn(low, SlidingYes)
        IN  /\ negative => result = <<"N","o">>
            /\ (~negative /\ positive) => result = <<"Y","e","s">>
            /\ (~negative /\ ~positive) => result = <<"U","n","k","n","o","w","n">>
            /\ Contains(low, <<"n","o"," ","s","l","i","d","i","n","g"," ","s","c","a","l","e">>) => result # <<"Y","e","s">>

C17_Witness ==
    /\ pc = "sliding_scale"
    /\ text_in = <<"r","e","d","u","c","e","d"," ","f","e","e"," ","N","o"," ","s","l","i","d","i","n","g"," ","s","c","a","l","e">>
    /\ result = <<"N","o">>

\* the dollar-amount candidates of a text: every number the price pattern finds
Candidates(t) ==
    IF t = None THEN {}
    ELSE LET prices == PricesOf(FindAllPrices(t, 1))
         IN  {prices[k] : k \in 1..Len(prices)}

\* C18: extract_price_range returns (None, None) exactly when no candidate of
\* the text lies in 20..600, and otherwise the smallest and the largest of the
\* candidates in that band, so that 20 <= min <= max <= 600.
C18_PriceRangeInBand ==
    pc = "price_range" =>
        LET band == {p \in Candidates(text_in) : 20 <= p /\ p <= 600}
        IN  /\ result = <<NoInt, NoInt>> <=> band = {}
            /\ band # {} =>
                  \E lo, hi \in band :
                      /\ result = <<{lo}, {hi}>>
                      /\ \A p \in band : lo <= p /\ p <= hi
                      /\ 20 <= lo /\ lo <= hi /\ hi <= 600
            /\ text_in = <<"S","e","s","s","i","o","n","s"," ","a","r","e"," ","$","1","5","0",","," ","s","l","i","d","i","n","g"," ","s","c","a","l","e"," ","d","o","w","n"," ","t","o"," ","$","9","0">> =>
                  result = <<{90}, {150}>>
            /\ text_in = <<"R","e","n","t"," ","i","s"," ","$","5","0","0","0">> => result = <<NoInt, NoInt>>
            /\ text_in = <<"$"," ","8","0"," ","t","o"," ","1","2","0"," ","$","1",",","5","0","0">> => result = <<{80}, {120}>>

C18_Witness ==
    /\ pc = "price_range"
    /\ text_in = <<"R","e","n","t"," ","i","s"," ","$","5","0","0","0"," ","$","1","0","0","-","$","2","0","0">>
    /\ result = <<{100}, {200}>>

----------------------------------------------------------------------------
(* LicenseVerifier._extract_name_parts *)

\* the pattern alt matches s at i, ignoring case
MatchesAt(s, i, alt) ==
    /\ i >= 1
    /\ i + Len(alt) - 1 <= Len(s)
    /\ Lower(SubSeq(s, i, i + Len(alt) - 1)) = Lower(alt)

\* (LCSW|LPC|LMFT|PsyD|PhD|MD|LCPC|LCMFT|MA|MS|MSW|MEd|EdD|NCC|ACS|LICSW)
CredentialAlts ==
    <<<<"L","C","S","W">>, <<"L","P","C">>, <<"L","M","F","T">>, <<"P","s","y","D">>, <<"P","h","D">>, <<"M","D">>, <<"L","C","P","C">>,
      <<"L","C","M","F","T">>, <<"M","A">>, <<"M","S">>, <<"M","S","W">>, <<"M","E","d">>, <<"E","d","D">>, <<"N","C","C">>,
      <<"A","C","S">>, <<"L","I","C","S","W">>>>

\* (LLC|Inc|PLLC|PC|Associates|& Associates|Group|Center|Practice)
BusinessAlts ==
    <<<<"L","L","C">>, <<"I","n","c">>, <<"P","L","L","C">>, <<"P","C">>, <<"A","s","s","o","c","i","a","t","e","s">>, <<"&"," ","A","s","s","o","c","i","a","t","e","s">>,
      <<"G","r","o","u","p">>, <<"C","e","n","t","e","r">>, <<"P","r","a","c","t","i","c","e">>>>

\* the index after the run of [-\w] that starts at i
RECURSIVE SkipWordOrHyphen(_, _)
SkipWordOrHyphen(s, i) ==
    IF i <= Len(s) /\ (IsWordChar(s[i]) \/ s[i] = "-")
    THEN SkipWordOrHyphen(s, i + 1) ELSE i

\* the index after the match of ,?\s*(credential)[-\w]* that starts at i, 0 if
\* there is none
CredentialMatchEnd(s, i) ==
    LET at   == SkipSpaces(s, IF s[i] = "," THEN i + 1 ELSE i)
        alts == {k \in 1..Len(CredentialAlts) : MatchesAt(s, at, CredentialAlts[k])}
    IN  IF alts = {} THEN 0
        ELSE LET k == CHOOSE a \in alts : \A b \in alts : a <= b
             IN  SkipWordOrHyphen(s, at + Len(CredentialAlts[k]))

\* re.sub of the credential pattern by "": the text from i on without the matches
RECURSIVE RemoveCredentials(_, _)
RemoveCredentials(s, i) ==
    IF i > Len(s) THEN <<>>
    ELSE LET e == CredentialMatchEnd(s, i)
         IN  IF e = 0 THEN <<s[i]>> \o RemoveCredentials(s, i + 1)
             ELSE RemoveCredentials(s, e)

\* the index after the match of \b(business suffix)\b that starts at i, 0 if
\* there is none
BusinessMatchEnd(s, i) ==
    LET alts == {k \in 1..Len(BusinessAlts) :
                    /\ MatchesAt(s, i, BusinessAlts[k])
                    /\ WordBoundaryAt(s, i - 1 + Len(BusinessAlts[k]))}
    IN  IF alts = {} \/ ~WordBoundaryAt(s, i - 1) THEN 0
        ELSE LET k == CHOOSE a \in alts : \A b \in alts : a <= b
             IN  i + Len(BusinessAlts[k])

\* re.sub of the business suffix pattern by ""
RECURSIVE RemoveBusinessSuffixes(_, _)
RemoveBusinessSuffixes(s, i) ==
    IF i > Len(s) THEN <<>>
    ELSE LET e == BusinessMatchEnd(s, i)
         IN  IF e = 0 THEN <<s[i]>> \o RemoveBusinessSuffixes(s, i + 1)
             ELSE RemoveBusinessSuffixes(s, e)

\* re.sub(r"^Dr\.?\s+", "", name, flags=re.IGNORECASE)
RemoveDrPrefix(s) ==
    IF ~MatchesAt(s, 1, <<"D","r">>) THEN s
    ELSE LET dot == IF Len(s) >= 3 /\ s[3] = "." THEN 4 ELSE 3
         IN  IF dot <= Len(s) /\ s[dot] \in WhiteChars
             THEN SubSeq(s, SkipSpaces(s, dot), Len(s))
             ELSE s

\* str.split(): the runs of non-whitespace
SplitWords(s) == SelectSeq(Split(s, " "), LAMBDA w : w # <<>>)

NamePartsOf(cleaned) ==
    LET parts == SplitWords(cleaned)
    IN  IF Len(parts) >= 2 THEN <<parts[1], parts[Len(parts)]>>
        ELSE IF Len(parts) = 1 THEN <<<<>>, parts[1]>>
        ELSE <<<<>>, <<>>>>

extract_name_parts(name) ==
    IF name = None \/ name = <<>> THEN <<<<>>, <<>>>>
    ELSE NamePartsOf(RemoveDrPrefix(Strip(RemoveBusinessSuffixes(
             Strip(RemoveCredentials(name, 1)), 1))))

MaxCredentials == 1

HonorificPool == {<<>>, <<"D","r","."," ">>, <<"d","r"," ">>}

FirstNames == {<<"J","a","n","e">>, <<"M","a","r","i","a">>, <<"M","a","r","k">>, <<"A","n","n">>}

LastNames == {<<"D","o","e">>, <<"T","h","o","m","a","s">>, <<"A","d","a","m","s">>, <<"L","e","e">>}

CredentialSuffixes ==
    {<<","," ","L","C","S","W">>, <<","," ","L","C","S","W","-","C">>, <<" ","P","h","D">>, <<","," ","m","d">>, <<" ","L","L","C">>, <<" ","&"," ","A","s","s","o","c","i","a","t","e","s">>}

\* the suffixes of 0..n credentials and business suffixes
RECURSIVE SuffixPool(_)
SuffixPool(n) ==
    IF n = 0 THEN {<<>>}
    ELSE SuffixPool(n - 1) \cup {p \o c : p \in SuffixPool(n - 1), c \in CredentialSuffixes}

\* display names: an honorific, a first name, a last name or none, suffixes
DisplayNames ==
    {h \o f \o l \o c : h \in HonorificPool, f \in FirstNames,
                        l \in {<<>>} \cup {<<" ">> \o n : n \in LastNames},
                        c \in SuffixPool(MaxCredentials)}
        \cup SuffixPool(MaxCredentials) \cup {None}

\* verify is about to split a therapist name
InitName ==
    /\ text_in \in DisplayNames
    /\ result = NaN
    /\ config = <<>>
    /\ lookup = <<>>
    /\ pc = "extract_name_parts"
    /\ PipelineIdle
    /\ RunIdle

\* first, last = self._extract_name_parts(name)
ExtractNameParts ==
    /\ pc = "extract_name_parts"
    /\ result' = extract_name_parts(text_in)
    /\ pc' = "name_parts"
    /\ UNCHANGED <<runVars, config, lookup, text_in, pipelineVars>>

NextName == ExtractNameParts

SpecName == InitName /\ [][NextName]_vars

\* C20: for a display name "<First> <Last>, <credential>" with ordinary first
\* and last names _extract_name_parts returns (First, Last): only whole
\* credential tokens, business suffix tokens and a leading honorific are
\* removed, never a part of a name token that contains an abbreviation.
C20_OnlyWholeCredentialTokens ==
    pc = "name_parts" =>
        \A f \in FirstNames, l \in LastNames, c \in CredentialSuffixes :
            text_in = f \o <<" ">> \o l \o c => result = <<f, l>>

----------------------------------------------------------------------------
(* enrich_from_text and process_batch *)

ENRICHMENT_FIELDS ==
    {"insurance_accepted", "sliding_scale", "price_range_min", "price_range_max",
     "specializations", "therapy_approaches", "telehealth", "telehealth_platform",
     "accepting_new_patients", "education", "languages", "profile_image_url",
     "bio_summary"}

\* the platforms dict of detect_telehealth_platform, in its order
Platforms ==
    <<[name |-> <<"d","o","x","y",".","m","e">>, keywords |-> <<<<"d","o","x","y">>, <<"d","o","x","y",".","m","e">>>>],
      [name |-> <<"Z","o","o","m">>, keywords |-> <<<<"z","o","o","m">>>>],
      [name |-> <<"S","i","m","p","l","e","P","r","a","c","t","i","c","e">>, keywords |-> <<<<"s","i","m","p","l","e","p","r","a","c","t","i","c","e">>, <<"s","i","m","p","l","e"," ","p","r","a","c","t","i","c","e">>>>],
      [name |-> <<"T","h","e","r","a","p","y","N","o","t","e","s">>, keywords |-> <<<<"t","h","e","r","a","p","y","n","o","t","e","s">>, <<"t","h","e","r","a","p","y"," ","n","o","t","e","s">>>>],
      [name |-> <<"V","S","e","e">>, keywords |-> <<<<"v","s","e","e">>>>],
      [name |-> <<"G","o","o","g","l","e"," ","M","e","e","t">>, keywords |-> <<<<"g","o","o","g","l","e"," ","m","e","e","t">>>>],
      [name |-> <<"M","i","c","r","o","s","o","f","t"," ","T","e","a","m","s">>, keywords |-> <<<<"m","i","c","r","o","s","o","f","t"," ","t","e","a","m","s">>, <<"m","s"," ","t","e","a","m","s">>>>],
      [name |-> <<"T","h","e","r","a","N","e","s","t">>, keywords |-> <<<<"t","h","e","r","a","n","e","s","t">>>>],
      [name |-> <<"J","a","n","e"," ","A","p","p">>, keywords |-> <<<<"j","a","n","e"," ","a","p","p">>, <<"j","a","n","e","a","p","p">>>>]>>

\* the names of a sequence of named keyword lists that have a keyword in s
RECURSIVE NamesFound(_, _)
NamesFound(entries, s) ==
    IF entries = <<>> THEN <<>>
    ELSE (IF AnyIn(s, Head(entries).keywords) THEN <<Head(entries).name>> ELSE <<>>)
             \o NamesFound(Tail(entries), s)

detect_telehealth_platform(t) ==
    IF t = None \/ t = <<>> THEN <<>>
    ELSE Join(NamesFound(Platforms, Lower(t)), <<","," ">>)

\* language_map of extract_languages; "nTilde" is the one character n with tilde
LanguageMap ==
    <<[name |-> <<"E","n","g","l","i","s","h">>, keywords |-> <<<<"e","n","g","l","i","s","h">>>>],
      [name |-> <<"S","p","a","n","i","s","h">>, keywords |-> <<<<"s","p","a","n","i","s","h">>, <<"e","s","p","a","n","o","l">>,
                                             <<"e","s","p","a","nTilde","o","l">>>>],
      [name |-> <<"M","a","n","d","a","r","i","n">>, keywords |-> <<<<"m","a","n","d","a","r","i","n">>, <<"c","h","i","n","e","s","e">>>>],
      [name |-> <<"K","o","r","e","a","n">>, keywords |-> <<<<"k","o","r","e","a","n">>>>],
      [name |-> <<"V","i","e","t","n","a","m","e","s","e">>, keywords |-> <<<<"v","i","e","t","n","a","m","e","s","e">>>>],
      [name |-> <<"F","r","e","n","c","h">>, keywords |-> <<<<"f","r","e","n","c","h">>>>],
      [name |-> <<"A","r","a","b","i","c">>, keywords |-> <<<<"a","r","a","b","i","c">>>>],
      [name |-> <<"A","m","h","a","r","i","c">>, keywords |-> <<<<"a","m","h","a","r","i","c">>>>],
      [name |-> <<"A","S","L">>, keywords |-> <<<<"a","s","l">>, <<"a","m","e","r","i","c","a","n"," ","s","i","g","n"," ","l","a","n","g","u","a","g","e">>,
                                         <<"s","i","g","n"," ","l","a","n","g","u","a","g","e">>>>],
      [name |-> <<"P","o","r","t","u","g","u","e","s","e">>, keywords |-> <<<<"p","o","r","t","u","g","u","e","s","e">>>>],
      [name |-> <<"H","i","n","d","i">>, keywords |-> <<<<"h","i","n","d","i">>>>],
      [name |-> <<"U","r","d","u">>, keywords |-> <<<<"u","r","d","u">>>>],
      [name |-> <<"T","a","g","a","l","o","g">>, keywords |-> <<<<"t","a","g","a","l","o","g">>>>],
      [name |-> <<"F","a","r","s","i">>, keywords |-> <<<<"f","a","r","s","i">>, <<"p","e","r","s","i","a","n">>>>],
      [name |-> <<"R","u","s","s","i","a","n">>, keywords |-> <<<<"r","u","s","s","i","a","n">>>>],
      [name |-> <<"J","a","p","a","n","e","s","e">>, keywords |-> <<<<"j","a","p","a","n","e","s","e">>>>],
      [name |-> <<"G","e","r","m","a","n">>, keywords |-> <<<<"g","e","r","m","a","n">>>>],
      [name |-> <<"I","t","a","l","i","a","n">>, keywords |-> <<<<"i","t","a","l","i","a","n">>>>],
      [name |-> <<"H","a","i","t","i","a","n"," ","C","r","e","o","l","e">>, keywords |-> <<<<"h","a","i","t","i","a","n"," ","c","r","e","o","l","e">>, <<"c","r","e","o","l","e">>>>]>>

extract_languages(t) ==
    IF t = None \/ t = <<>> THEN <<>>
    ELSE LET found == NamesFound(LanguageMap, Lower(t))
         IN  Sorted({found[k] : k \in 1..Len(found)})

\* the words with which a match of one of the three patterns of
\* extract_education can start, lowercased and without dots
EducationTriggers ==
    <<<<"e","d","u","c","a","t","i","o","n">>, <<"c","r","e","d","e","n","t","i","a","l","s">>, <<"d","e","g","r","e","e">>, <<"t","r","a","i","n","i","n","g">>,
      <<"q","u","a","l","i","f","i","c","a","t","i","o","n","s">>, <<"e","a","r","n","e","d">>, <<"r","e","c","e","i","v","e","d">>, <<"g","r","a","d","u","a","t","e","d">>,
      <<"c","o","m","p","l","e","t","e","d">>, <<"m","a">>, <<"m","s">>, <<"p","h","d">>, <<"p","s","y","d">>, <<"m","d">>,
      <<"e","d","d">>, <<"m","s","w">>, <<"b","a">>, <<"b","s">>>>

\* extract_education for a text in which none of its patterns can match:
\* findall returns nothing and the result is "".  The pages of this model hold
\* no trigger; a page that holds one has no value here.
extract_education(t) ==
    IF t = None \/ t = <<>> THEN <<>>
    ELSE IF ~AnyIn(SelectSeq(Lower(t), LAMBDA c : c # "."), EducationTriggers) THEN <<>>
    ELSE CHOOSE findings \in {} : TRUE

\* extract_profile_image for content without an img tag: every pattern starts
\* with "<img", so none matches and the result is "".  The pages of this model
\* hold no img tag; a page that holds one has no value here.
extract_profile_image(html_content, url) ==
    IF html_content = None \/ html_content = <<>> THEN <<>>
    ELSE IF ~Contains(Lower(html_content), <<"<","i","m","g">>) THEN <<>>
    ELSE CHOOSE img_url \in {} : TRUE

\* a Python int or None from an int that may be missing
PyInt(maybe) == IF maybe = NoInt THEN None ELSE CHOOSE n \in maybe : TRUE

\* text.strip()[:500] if text else ""
BioSummary(t) ==
    IF t = None \/ t = <<>> THEN <<>>
    ELSE LET stripped == Strip(t)
         IN  SubSeq(stripped, 1, IF Len(stripped) < 500 THEN Len(stripped) ELSE 500)

enrich_from_text(t, html, url, insurance_lookup, spec_lookup, approach_lookup) ==
    LET price == extract_price_range(t)
    IN  [insurance_accepted     |-> Join(match_insurance(t, insurance_lookup), <<","," ">>),
         sliding_scale          |-> detect_sliding_scale(t),
         price_range_min        |-> PyInt(price[1]),
         price_range_max        |-> PyInt(price[2]),
         specializations        |-> Join(match_specializations(t, spec_lookup), <<","," ">>),
         therapy_approaches     |-> Join(match_specializations(t, approach_lookup), <<","," ">>),
         telehealth             |-> detect_telehealth(t),
         telehealth_platform    |-> detect_telehealth_platform(t),
         accepting_new_patients |-> detect_accepting_patients(t),
         education              |-> extract_education(t),
         languages              |-> Join(extract_languages(t), <<","," ">>),
         profile_image_url      |-> extract_profile_image(html, url),
         bio_summary            |-> BioSummary(t)]

\* {field: "" for field in ENRICHMENT_FIELDS}
EmptyVector == [field \in ENRICHMENT_FIELDS |-> <<>>]

MaxPages == 2

SiteUrl == <<"h","t","t","p","s",":","/","/","a",".","c","o">>

\* the pages of the sites of this model
Pages ==
    {<<>>, <<" ">>, <<"C","B","T"," ","i","s"," ","g","r","e","a","t">>,
     <<"Z","o","o","m"," ","o","r"," ","p","h","o","n","e"," ","s","e","s","s","i","o","n","s","."," ","N","o"," ","s","l","i","d","i","n","g"," ","s","c","a","l","e",","," ","$","1","5","0"," ","t","o"," ","$","2","0","0">>,
     <<"A","e","t","n","a"," ","a","n","d"," ","H","A","P","."," ","B","o","o","k"," ","a"," ","s","e","s","s","i","o","n","!"," ","H","a","b","l","a","m","o","s"," ","S","p","a","n","i","s","h">>,
     <<" ","P","r","a","c","t","i","c","e"," ","i","s"," ","f","u","l","l"," ","(","A","r","t",")"," ","a","n","x","i","e","t","y"," ","$","9","0"," ">>}

\* what crawler.arun(url) can do: raise, return an unsuccessful result, or
\* return a successful result with the page as markdown or as extracted content
ArunOutcomes ==
    {[outcome |-> "raises"], [outcome |-> "unsuccessful"]}
        \cup {[outcome |-> "success", markdown |-> page, extracted_content |-> <<>>] :
                 page \in Pages}
        \cup {[outcome |-> "success", markdown |-> <<>>,
               extracted_content |-> <<"C","B","T"," ","i","s"," ","g","r","e","a","t">>]}

\* crawl_website that takes an unsuccessful result for an empty page
crawl_website_unsuccessful_empty(arun) ==
    IF arun.outcome = "raises" THEN None
    ELSE IF arun.outcome = "unsuccessful" THEN <<>>
    ELSE IF arun.markdown # <<>> THEN arun.markdown
    ELSE IF arun.extracted_content # <<>> THEN arun.extracted_content
    ELSE <<>>

\* crawl_website: None for an exception or an unsuccessful result, else
\* result.markdown or result.extracted_content or ""
crawl_website(arun) ==
    IF arun.outcome # "success" THEN None
    ELSE IF arun.markdown # <<>> THEN arun.markdown
    ELSE IF arun.extracted_content # <<>> THEN arun.extracted_content
    ELSE <<>>

\* what crawl_website can return
CrawlOutcomes == {crawl_website(arun) : arun \in ArunOutcomes}

\* a site that always serves the same page
StableUrl == <<"h","t","t","p","s",":","/","/","b",".","c","o">>

\* what crawling a URL can do: the stable site serves its page, any other
\* site does any of the things above
ArunOutcomesOf(url) ==
    IF url = StableUrl
    THEN {[outcome |-> "success", markdown |-> <<"C","B","T"," ","i","s"," ","g","r","e","a","t">>, extracted_content |-> <<>>]}
    ELSE ArunOutcomes

EnrichRows == [website : {NaN, <<>>, SiteUrl}, therapist_name : {NameJane}]

\* process_batch(df, 0, len(df), ...) is about to crawl a batch of 1..MaxPages rows
InitEnrich ==
    /\ \E n \in 1..MaxPages :
          /\ df \in [1..n -> EnrichRows]
          /\ \E delay \in {0, 1} :
                args = [batch_size |-> n, resume_from |-> 0, delay |-> delay]
    /\ start_idx = 0
    /\ config = EnrichConfig
    /\ lookup = EnrichLookup
    /\ text_in = None
    /\ result = <<>>
    /\ pc = "process_batch"
    /\ raw = <<>> /\ kept = <<>> /\ again = <<>>
    /\ columns = {} /\ keywords = NoKeywords
    /\ phone_in = NaN /\ phone_out = NaN
    /\ all_results = <<>> /\ checkpoint = {} /\ attempt = 0 /\ verify_idx = 0 /\ events = <<>>

\* the sleep between two requests: if delay > 0: await asyncio.sleep(delay)
PoliteSleep(delay) == IF delay > 0 THEN <<[call |-> "sleep", seconds |-> delay]>> ELSE <<>>

\* one pass of the loop of process_batch over df.iloc[start_idx:end_idx]: the
\* next row of the batch is crawled (text_in is what crawl_website returned,
\* None if the row has no URL) and its enrichment vector is appended to results
ProcessRow ==
    /\ pc = "process_batch"
    /\ LET sum     == start_idx + args.batch_size
           end_idx == IF sum < Len(df) THEN sum ELSE Len(df)
           row     == start_idx + Len(result)
       IN  /\ row < end_idx
           /\ LET url == df[row + 1].website
              IN  IF url = <<>>
                  THEN /\ text_in' = None
                       /\ result' = Append(result, EmptyVector)
                       /\ events' = events
                  ELSE \E arun \in ArunOutcomesOf(url) :
                         LET page == crawl_website(arun)
                         IN  /\ text_in' = page
                             /\ result' = Append(result,
                                    IF page = None THEN EmptyVector
                                    ELSE enrich_from_text(page, page, url, lookup.insurance,
                                             lookup.specialization, lookup.approach))
                             /\ events' = events
                                    \o <<[call |-> "crawl_website", row |-> row,
                                          outcome |-> arun.outcome, text |-> page]>>
                                    \o PoliteSleep(args.delay)
           /\ pc' = IF row + 1 = end_idx THEN "batch_done" ELSE "process_batch"
    /\ UNCHANGED <<config, lookup, raw, columns, keywords, df, kept, again,
                   phone_in, phone_out, args, start_idx, all_results, checkpoint,
                   attempt, verify_idx>>

NextEnrich == ProcessRow

SpecEnrich == InitEnrich /\ [][NextEnrich]_vars

\* C19: when the text of a record is absent or empty, every one of the 13
\* fields of the enrichment vector produced for it is empty.
C19_NoTextAllEmpty ==
    (Len(result) >= 1 /\ text_in \in {None, <<>>}) =>
        \A field \in ENRICHMENT_FIELDS : result[Len(result)][field] = <<>>

\* a token without its commas and full stops
Bare(token) == SelectSeq(token, LAMBDA c : c \notin {",", "."})

\* the part of a token before its first hyphen
BeforeHyphen(token) ==
    LET hyphens == {i \in 1..Len(token) : token[i] = "-"}
    IN  IF hyphens = {} THEN token
        ELSE SubSeq(token, 1, (CHOOSE i \in hyphens : \A j \in hyphens : i <= j) - 1)

\* a token that is a credential abbreviation (LCSW, LCSW-C, md), a business
\* suffix (LLC, &, Associates) or an honorific (Dr, Dr.)
TitleToken(token) ==
    \/ \E k \in 1..Len(CredentialAlts) :
           Lower(BeforeHyphen(Bare(token))) = Lower(CredentialAlts[k])
    \/ \E k \in 1..Len(BusinessAlts) : Lower(Bare(token)) = Lower(BusinessAlts[k])
    \/ Bare(token) = <<"&">>
    \/ Lower(Bare(token)) = <<"d","r">>

\* the whitespace-separated tokens of a display name that are none of these
NameTokens(name) ==
    IF name = None THEN <<>>
    ELSE SelectSeq(SplitWords(name), LAMBDA token : Bare(token) # <<>> /\ ~TitleToken(token))

\* C21: for every display name with at least one token that is not a
\* credential abbreviation, a business suffix or an honorific,
\* _extract_name_parts returns a non-empty last name.
C21_LastNamePopulated ==
    (pc = "name_parts" /\ NameTokens(text_in) # <<>>) => result[2] # <<>>

\* the calls of crawl_website made for the row with index row
CrawlsOf(row) ==
    SelectSeq(events, LAMBDA e : e.call = "crawl_website" /\ e.row = row)

\* the calls made to the outside in the step
NewEvents == SubSeq(events', Len(events) + 1, Len(events'))

\* the vector process_batch owes the row at position i of the frame, given
\* what crawl_website returned for it
VectorOwed(i) ==
    LET url == df[i].website
    IN  IF url = <<>> \/ CrawlsOf(i - 1)[1].text = None THEN EmptyVector
        ELSE LET page == CrawlsOf(i - 1)[1].text
             IN  enrich_from_text(page, page, url, lookup.insurance,
                                  lookup.specialization, lookup.approach)

\* C22: a failed page retrieval (exception or unsuccessful crawl result) does
\* not leave process_batch: the record gets the all-empty vector, the loop goes
\* on with the next record, and the batch ends with one result per record of
\* the batch, in record order.
C22_CrawlFailureContained ==
    /\ [][(/\ NewEvents # <<>>
           /\ NewEvents[1].call = "crawl_website"
           /\ NewEvents[1].outcome # "success")
          => /\ result' = Append(result, EmptyVector)
             /\ pc' = IF start_idx + Len(result') < Len(df)
                      THEN "process_batch" ELSE "batch_done"]_vars
    /\ [](pc = "batch_done" =>
            /\ Len(result) = Len(df)
            /\ \A i \in 1..Len(df) :
                  /\ df[i].website # <<>> => Len(CrawlsOf(i - 1)) = 1
                  /\ result[i] = VectorOwed(i))

\* a batch of two records ends: the crawl of the first raised, the second
\* was crawled after it and has findings
C22_Witness ==
    /\ pc = "batch_done"
    /\ Len(df) = 2
    /\ Len(CrawlsOf(0)) = 1 /\ CrawlsOf(0)[1].outcome = "raises"
    /\ Len(CrawlsOf(1)) = 1 /\ CrawlsOf(1)[1].outcome = "success"
    /\ result[1] = EmptyVector
    /\ result[2].therapy_approaches = <<"C","B","T">>

----------------------------------------------------------------------------
(* enrich_data.main: the batch loop, the checkpoints and the status *)

\* {field: row.get(field, "") for field in ENRICHMENT_FIELDS}
VectorOfRow(row) == [field \in ENRICHMENT_FIELDS |-> row[field]]

\* the row with the fields of the vector set
WithVector(row, vector) ==
    [c \in DOMAIN row |-> IF c \in ENRICHMENT_FIELDS THEN vector[c] ELSE row[c]]

\* truth value of a cell: "" and None are false, any other string and NaN are true
Truthy(value) == value # <<>> /\ value # None

\* the lambda of df.apply that sets enrichment_status
EnrichmentStatus(row) ==
    IF Truthy(row.insurance_accepted) THEN "enriched_full"
    ELSE IF \E f \in {"specializations", "telehealth", "accepting_new_patients"} :
                Truthy(row[f])
         THEN "enriched_basic"
    ELSE "cleaned"

\* CheckpointFrame that leaves the enrichment columns as they are in df
CheckpointFrameUnfilled(frame, results) ==
    SubSeq(frame, 1, IF Len(results) < Len(frame) THEN Len(results) ELSE Len(frame))

\* temp_df of the checkpoint: df.iloc[:len(all_results)] with the fields of all_results
CheckpointFrame(frame, results) ==
    LET k == IF Len(results) < Len(frame) THEN Len(results) ELSE Len(frame)
    IN  [i \in 1..k |-> WithVector(frame[i], results[i])] \o <<>>

MaxRunRows == 5

MaxBatchSize == 2

\* the vector of row i of an input that an earlier run has enriched: empty
\* cells are read as NaN
EarlierVector(i) ==
    [field \in ENRICHMENT_FIELDS |->
        IF field = "specializations" THEN <<"A","n","x","i","e","t","y">>
        ELSE IF field = "bio_summary" THEN <<"r", "o", "w", DigitSeq[i]>>
        ELSE NaN]

\* a row of the input of the enrichment run, enrichment columns initialised
RunRow(i, website, earlier) ==
    [c \in ENRICHMENT_FIELDS \cup {"website", "therapist_name"} |->
        IF c = "website" THEN website
        ELSE IF c = "therapist_name" THEN NameJane
        ELSE IF earlier THEN EarlierVector(i)[c]
        ELSE <<>>]

\* main has read 1..MaxRunRows records, added the missing enrichment columns
\* and loaded the lookups; a checkpoint of an earlier run may lie in the
\* output directory
InitRun ==
    /\ \E n \in 1..MaxRunRows :
          /\ \E sites \in [1..n -> {<<>>, StableUrl}], earlier \in BOOLEAN :
                df = [i \in 1..n |-> RunRow(i, sites[i], earlier)]
          /\ \E batch_size \in 1..MaxBatchSize, resume_from \in 0..n :
                args = [batch_size |-> batch_size, resume_from |-> resume_from,
                        delay |-> 1]
    /\ checkpoint \in {{}, {<<>>}}
    /\ start_idx = 0
    /\ all_results = <<>>
    /\ config = EnrichConfig
    /\ lookup = EnrichLookup
    /\ text_in = None
    /\ result = <<>>
    /\ pc = "prefill"
    /\ raw = <<>> /\ kept = <<>> /\ again = <<>>
    /\ columns = {} /\ keywords = NoKeywords
    /\ phone_in = NaN /\ phone_out = NaN
    /\ attempt = 0 /\ verify_idx = 0 /\ events = <<>>

\* PrefillResults that starts the loop at the resume index without the pre-fill
PrefillResultsNone ==
    /\ pc = "prefill"
    /\ start_idx' = args.resume_from
    /\ all_results' = <<>>
    /\ pc' = "batch_loop"
    /\ UNCHANGED <<textVars, pipelineVars, args, checkpoint, attempt, verify_idx, events>>

\* start_idx = args.resume_from and the pre-fill of the rows before it
PrefillResults ==
    /\ pc = "prefill"
    /\ start_idx' = args.resume_from
    /\ all_results' = [i \in 1..args.resume_from |-> VectorOfRow(df[i])] \o <<>>
    /\ pc' = "batch_loop"
    /\ UNCHANGED <<textVars, pipelineVars, args, checkpoint, attempt, verify_idx, events>>

\* while start_idx < len(df): process_batch is called
StartBatch ==
    /\ pc = "batch_loop"
    /\ start_idx < Len(df)
    /\ result' = <<>>
    /\ pc' = "process_batch"
    /\ UNCHANGED <<config, lookup, text_in, pipelineVars, runVars>>

\* the batch returns: all_results.extend, start_idx += batch_size, and the
\* checkpoint every 5 batches
ExtendResults ==
    /\ pc = "batch_done"
    /\ all_results' = all_results \o result
    /\ start_idx' = start_idx + args.batch_size
    /\ IF (start_idx' \div args.batch_size) % 5 = 0
       THEN /\ checkpoint' = {CheckpointFrame(df, all_results')}
            /\ events' = Append(events, [call |-> "to_csv",
                                         file |-> "enrichment_checkpoint.csv"])
       ELSE UNCHANGED <<checkpoint, events>>
    /\ pc' = "batch_loop"
    /\ UNCHANGED <<textVars, pipelineVars, args, attempt, verify_idx>>

\* the loop has ended: the results are applied to the frame, the status is
\* set, the output is written and the checkpoint removed.  A list of results
\* shorter than the frame makes the column assignment raise.
FinishRun ==
    /\ pc = "batch_loop"
    /\ start_idx >= Len(df)
    /\ IF Len(all_results) < Len(df)
       THEN /\ pc' = "raised"
            /\ UNCHANGED <<df, checkpoint>>
       ELSE /\ df' = [i \in 1..Len(df) |->
                        LET row == WithVector(df[i], all_results[i])
                        IN  [c \in DOMAIN row \cup {"enrichment_status"} |->
                                IF c = "enrichment_status" THEN EnrichmentStatus(row)
                                ELSE row[c]]] \o <<>>
            /\ checkpoint' = {}
            /\ pc' = "done"
    /\ UNCHANGED <<textVars, raw, columns, keywords, kept, again, phone_in, phone_out,
                   args, start_idx, all_results, attempt, verify_idx, events>>

NextRun ==
    \/ PrefillResults
    \/ StartBatch
    \/ ProcessRow
    \/ ExtendResults
    \/ FinishRun

SpecRun == InitRun /\ [][NextRun]_vars

\* the rows for which crawl_website was called, in call order
CrawledRows ==
    LET crawls == SelectSeq(events, LAMBDA e : e.call = "crawl_website")
    IN  [k \in 1..Len(crawls) |-> crawls[k].row]

\* the while loop of main has ended
LoopEnded == pc = "batch_loop" /\ start_idx >= Len(df)

\* the steps main has left at most: rows not yet processed, and the position
\* in the loop
StepsLeft ==
    LET rows_left(done) == IF done < Len(df) THEN Len(df) - done ELSE 0
    IN  IF pc = "prefill" THEN 4 * Len(df) + 10
        ELSE IF pc = "batch_loop" THEN 4 * rows_left(start_idx) + 3
        ELSE IF pc = "process_batch" THEN 4 * rows_left(start_idx + Len(result)) + 2
        ELSE IF pc = "batch_done" THEN 4 * rows_left(start_idx + Len(result)) + 4
        ELSE 0

\* main can take a step: the guard of one of its steps holds
CanStep ==
    \/ pc = "prefill"
    \/ pc = "batch_loop"
    \/ /\ pc = "process_batch"
       /\ start_idx + Len(result) < start_idx + args.batch_size
       /\ start_idx + Len(result) < Len(df)
    \/ pc = "batch_done"

\* C23: with batch size >= 1 and resume index 0 <= r <= n the batch loop ends
\* with exactly n results in row order; no row before r is crawled and each
\* keeps the values it had in the input; every row from r on is processed
\* exactly once.  The loop ends because main can always take a step until its
\* output is written and every step lowers StepsLeft.
C23_ResumeEachRowOnce ==
    /\ [](pc \in {"batch_loop", "process_batch", "batch_done"} =>
            LET r == args.resume_from
            IN  /\ Len(all_results) <= Len(df)
                /\ Len(all_results) >= r
                /\ \A i \in 1..r : i <= Len(all_results) => all_results[i] = VectorOfRow(df[i])
                /\ \A k \in 1..Len(CrawledRows) :
                      /\ CrawledRows[k] >= r
                      /\ \A j \in 1..(k - 1) : CrawledRows[j] < CrawledRows[k]
                /\ LoopEnded =>
                      /\ Len(all_results) = Len(df)
                      /\ \A i \in (r + 1)..Len(df) :
                            /\ df[i].website # <<>> => Len(CrawlsOf(i - 1)) = 1
                            /\ all_results[i] = VectorOwed(i))
    /\ [](pc # "done" => CanStep)
    /\ [][StepsLeft' < StepsLeft]_vars

\* a run of four records with sites, resumed at row 1 with batches of two,
\* has ended its loop: row 0 kept its earlier values, rows 1..3 were crawled
C23_Witness ==
    /\ LoopEnded
    /\ Len(df) = 4 /\ args.resume_from = 1 /\ args.batch_size = 2
    /\ \A i \in 1..4 : df[i].website = StableUrl
    /\ all_results[1].specializations = <<"A","n","x","i","e","t","y">>
    /\ CrawledRows = <<1, 2, 3>>
    /\ all_results[4].therapy_approaches = <<"C","B","T">>

\* the step writes enrichment_checkpoint.csv
CheckpointWritten ==
    /\ NewEvents # <<>>
    /\ NewEvents[Len(NewEvents)].call = "to_csv"

NonEmptyCell(value) == value \notin {<<>>, NaN, None}

\* a cell that records a finding: it holds something other than the default
\* "Unknown" of the classifiers
Finding(value) == NonEmptyCell(value) /\ value # <<"U","n","k","n","o","w","n">>

\* C30: after enrichment the status of a record is "enriched_full" iff its
\* insurance_accepted is non-empty, otherwise "enriched_basic" iff one of
\* specializations, telehealth, accepting_new_patients is non-empty, otherwise
\* "cleaned"; a record is "enriched_basic" only when one of those three fields
\* records an actual finding.
C30_StatusReflectsFindings ==
    pc = "done" =>
        \A i \in 1..Len(df) :
            LET row   == df[i]
                three == {"specializations", "telehealth", "accepting_new_patients"}
            IN  /\ row.enrichment_status = "enriched_full"
                       <=> NonEmptyCell(row.insurance_accepted)
                /\ row.enrichment_status = "enriched_basic"
                       <=> /\ ~NonEmptyCell(row.insurance_accepted)
                           /\ \E f \in three : NonEmptyCell(row[f])
                /\ row.enrichment_status = "enriched_basic"
                       => \E f \in three : Finding(row[f])

----------------------------------------------------------------------------
(* verify_licenses.py: the verifiers and the loop of main *)

\* REQUEST_DELAY, the delay every verifier of get_verifier is built with
REQUEST_DELAY == 2

\* the three verifier classes: source tag, name of the board in the notes, URL
Verifiers ==
    [DC |-> [verification_source |-> <<"d","c","_","d","o","h">>, board |-> <<"D","C"," ","D","O","H">>,
             url |-> <<"h","t","t","p","s",":","/","/","d","o","h",".","d","c",".","g","o","v","/","s","e","r","v","i","c","e","/","l","i","c","e","n","s","e","-","v","e","r","i","f","i","c","a","t","i","o","n">>],
     MD |-> [verification_source |-> <<"m","d","_","b","o","p","c">>, board |-> <<"M","D"," ","B","O","P","C">>,
             url |-> <<"h","t","t","p","s",":","/","/","h","e","a","l","t","h",".","m","a","r","y","l","a","n","d",".","g","o","v","/","b","o","p","c">>],
     VA |-> [verification_source |-> <<"v","a","_","d","h","p">>, board |-> <<"V","A"," ","D","H","P">>,
             url |-> <<"h","t","t","p","s",":","/","/","d","h","p",".","v","i","r","g","i","n","i","a",".","g","o","v","/","l","o","o","k","u","p","/","d","e","f","a","u","l","t">>]]

\* the result dict verify starts with
InitialResult(state, license_type) ==
    [verified            |-> FALSE,
     license_number      |-> <<>>,
     license_type        |-> license_type,
     license_status      |-> <<>>,
     verification_source |-> Verifiers[state].verification_source,
     verification_notes  |-> <<>>]

\* the note verify writes for what session.get did; "EmDash" is the one
\* character of the dash in the note
NotesFor(state, last_name, http) ==
    LET board == Verifiers[state].board
    IN  IF http.outcome = "raises" THEN <<"R","e","q","u","e","s","t"," ","e","r","r","o","r",":"," ">> \o http.error
        ELSE IF http.status_code # <<"2","0","0">>
             THEN board \o <<" ","r","e","t","u","r","n","e","d"," ","s","t","a","t","u","s"," ">> \o http.status_code
        ELSE IF Contains(Lower(http.text), Lower(last_name))
             THEN <<"N","a","m","e"," ","f","o","u","n","d"," ","i","n"," ">> \o board \o <<" ","d","a","t","a","b","a","s","e"," ">> \o <<"EmDash">>
                      \o <<" ","n","e","e","d","s"," ","m","a","n","u","a","l"," ","c","o","n","f","i","r","m","a","t","i","o","n">>
        ELSE <<"N","a","m","e"," ","n","o","t"," ","f","o","u","n","d"," ","i","n"," ">> \o board \o <<" ","s","e","a","r","c","h"," ","r","e","s","u","l","t","s">>

\* the calls verify makes: the request, and the sleep that follows it when
\* the request returns
CallsFor(state, first_name, last_name, http) ==
    <<[call |-> "get", state |-> state, url |-> Verifiers[state].url,
       first_name |-> first_name, last_name |-> last_name,
       outcome |-> http.outcome]>>
        \o (IF http.outcome = "raises" THEN <<>>
            ELSE <<[call |-> "sleep", state |-> state, seconds |-> REQUEST_DELAY]>>)

\* verify that marks a name found in the page as verified
verify_auto(state, name, license_type, http) ==
    LET parts  == extract_name_parts(name)
        start  == InitialResult(state, license_type)
        notes  == NotesFor(state, parts[2], http)
        found  == http.outcome # "raises" /\ http.status_code = <<"2","0","0">>
                      /\ Contains(Lower(http.text), Lower(parts[2]))
    IN  IF parts[2] = <<>>
        THEN [result |-> [start EXCEPT !.verification_notes = <<"C","o","u","l","d"," ","n","o","t"," ","p","a","r","s","e"," ","n","a","m","e">>],
              calls |-> <<>>]
        ELSE [result |-> [start EXCEPT !.verification_notes = notes, !.verified = found],
              calls |-> CallsFor(state, parts[1], parts[2], http)]

\* verify that sends the request before it looks at the parsed name
verify_request_first(state, name, license_type, http) ==
    LET parts  == extract_name_parts(name)
        start  == InitialResult(state, license_type)
    IN  [result |-> [start EXCEPT !.verification_notes =
                        IF parts[2] = <<>> THEN <<"C","o","u","l","d"," ","n","o","t"," ","p","a","r","s","e"," ","n","a","m","e">>
                        ELSE NotesFor(state, parts[2], http)],
         calls |-> CallsFor(state, parts[1], parts[2], http)]

\* DCVerifier.verify, MDVerifier.verify, VAVerifier.verify for a name that is
\* a string: the result dict and the calls made, http being what session.get does
verify(state, name, license_type, http) ==
    LET parts  == extract_name_parts(name)
        start  == InitialResult(state, license_type)
    IN  IF parts[2] = <<>>
        THEN [result |-> [start EXCEPT !.verification_notes = <<"C","o","u","l","d"," ","n","o","t"," ","p","a","r","s","e"," ","n","a","m","e">>],
              calls |-> <<>>]
        ELSE [result |-> [start EXCEPT !.verification_notes =
                                           NotesFor(state, parts[2], http)],
              calls |-> CallsFor(state, parts[1], parts[2], http)]

MaxVerifyRows == 2

\* what session.get can do: a page that names the licensee, a page that does
\* not, a status other than 200, a RequestException
HttpOutcomes ==
    {[outcome |-> "response", status_code |-> <<"2","0","0">>, text |-> <<"D","O","E",","," ","J","A","N","E",";"," ","L","E","E",","," ","A","N","N">>],
     [outcome |-> "response", status_code |-> <<"2","0","0">>, text |-> <<"N","o"," ","r","e","s","u","l","t","s">>],
     [outcome |-> "response", status_code |-> <<"5","0","3">>, text |-> <<>>],
     [outcome |-> "raises", error |-> <<"t","i","m","e","d"," ","o","u","t">>]}

\* rows of the frame to verify, verification columns initialised
VerifyRows ==
    {[state |-> st, therapist_name |-> nm, license_type |-> lt,
      license_verified |-> <<>>, license_number |-> <<>>, verification_notes |-> <<>>] :
        st \in {<<"D","C">>}, nm \in {<<"J","a","n","e"," ","D","o","e">>, <<"M","a","r","k">>, <<>>, NaN}, lt \in {<<"L","C","S","W">>}}
    \cup
    {[state |-> st, therapist_name |-> <<"A","n","n"," ","L","e","e">>, license_type |-> <<>>,
      license_verified |-> <<>>, license_number |-> <<>>, verification_notes |-> <<>>] :
        st \in {<<"m","d">>, <<"V","A">>, NaN}}

\* main of verify_licenses has read the frame (--state ALL), added the
\* verification columns and built the three verifiers
InitVerify ==
    /\ \E n \in 1..MaxVerifyRows : df \in [1..n -> VerifyRows]
    /\ args = [state |-> "ALL", delay |-> REQUEST_DELAY]
    /\ verify_idx = 0
    /\ events = <<>>
    /\ text_in = NaN
    /\ result = NaN
    /\ pc = "verify_loop"
    /\ config = <<>> /\ lookup = <<>>
    /\ raw = <<>> /\ kept = <<>> /\ again = <<>>
    /\ columns = {} /\ keywords = NoKeywords
    /\ phone_in = NaN /\ phone_out = NaN
    /\ start_idx = 0 /\ all_results = <<>> /\ checkpoint = {} /\ attempt = 0

\* str(row.get("state", "")).upper()
StateOf(row) == IF row.state = NaN THEN <<"N","A","N">> ELSE Upper(row.state)

\* the key of the verifiers dict for a state, "" if there is none
VerifierKey(state) ==
    IF state = <<"D","C">> THEN "DC" ELSE IF state = <<"M","D">> THEN "MD"
    ELSE IF state = <<"V","A">> THEN "VA" ELSE ""

\* one pass of the loop of main over df_to_verify.  A row without verifier
\* gets a note, a row without name is skipped, a name that is a missing cell
\* makes _extract_name_parts raise TypeError, which nothing catches.
VerifyRow ==
    /\ pc = "verify_loop"
    /\ verify_idx < Len(df)
    /\ LET at    == verify_idx + 1
           row   == df[at]
           key   == VerifierKey(StateOf(row))
           next  == IF at = Len(df) THEN "verify_done" ELSE "verify_loop"
       IN  IF key = ""
           THEN /\ df' = [df EXCEPT ![at].verification_notes =
                            <<"N","o"," ","v","e","r","i","f","i","e","r"," ","a","v","a","i","l","a","b","l","e"," ","f","o","r"," ","s","t","a","t","e",":"," ">> \o StateOf(row)]
                /\ pc' = next
                /\ UNCHANGED <<text_in, result, events>>
           ELSE IF row.therapist_name = <<>>
           THEN /\ pc' = next
                /\ UNCHANGED <<df, text_in, result, events>>
           ELSE IF row.therapist_name = NaN
           THEN /\ pc' = "raised"
                /\ text_in' = NaN
                /\ UNCHANGED <<df, result, events>>
           ELSE \E http \in HttpOutcomes :
                 \E v \in {verify(key, row.therapist_name, row.license_type, http)} :
                       /\ text_in' = row.therapist_name
                       /\ result' = v.result
                       /\ events' = events \o v.calls
                       /\ df' = [df EXCEPT ![at] =
                             [row EXCEPT
                                !.license_verified = IF v.result.verified
                                                     THEN <<"T","r","u","e">> ELSE <<"F","a","l","s","e">>,
                                !.license_number = IF v.result.license_number # <<>>
                                                   THEN v.result.license_number ELSE @,
                                !.license_type = IF v.result.license_type # <<>>
                                                 THEN v.result.license_type ELSE @,
                                !.verification_notes = v.result.verification_notes]]
                       /\ pc' = next
    /\ verify_idx' = verify_idx + 1
    /\ UNCHANGED <<config, lookup, raw, columns, keywords, kept, again, phone_in,
                   phone_out, args, start_idx, all_results, checkpoint, attempt>>

NextVerify == VerifyRow

SpecVerify == InitVerify /\ [][NextVerify]_vars

\* the step calls verify: the row has a verifier and a name that is a string
VerifyCalled ==
    /\ pc = "verify_loop"
    /\ verify_idx < Len(df)
    /\ VerifierKey(StateOf(df[verify_idx + 1])) # ""
    /\ df[verify_idx + 1].therapist_name \notin {<<>>, NaN}

\* C24: the verifiers never auto-verify: on every path of DCVerifier.verify,
\* MDVerifier.verify and VAVerifier.verify (name found, not found, status other
\* than 200, request exception, unparsable name) the result has verified =
\* False and an empty license number; apart from verification_notes it is the
\* same on every path.
C24_NeverAutoVerifies ==
    [][VerifyCalled =>
         LET row == df[verify_idx + 1]
         IN  /\ result'.verified = FALSE
             /\ result'.license_number = <<>>
             /\ result'.verification_notes # <<>>
             /\ [result' EXCEPT !.verification_notes = <<>>] =
                    [verified |-> FALSE, license_number |-> <<>>,
                     license_type |-> row.license_type, license_status |-> <<>>,
                     verification_source |->
                         Verifiers[VerifierKey(StateOf(row))].verification_source,
                     verification_notes |-> <<>>]
             /\ df'[verify_idx + 1].license_verified = <<"F","a","l","s","e">>
             /\ df'[verify_idx + 1].license_number = <<>>]_vars

\* the Maryland verifier found the name on the page of the board and left
\* the record unverified
C24_Witness ==
    /\ verify_idx >= 1
    /\ text_in = <<"A","n","n"," ","L","e","e">>
    /\ result.verification_source = <<"m","d","_","b","o","p","c">>
    /\ result.verification_notes =
           <<"N","a","m","e"," ","f","o","u","n","d"," ","i","n"," ","M","D"," ","B","O","P","C"," ","d","a","t","a","b","a","s","e"," ">> \o <<"EmDash">> \o <<" ","n","e","e","d","s"," ","m","a","n","u","a","l"," ","c","o","n","f","i","r","m","a","t","i","o","n">>
    /\ result.verified = FALSE
    /\ df[verify_idx].license_verified = <<"F","a","l","s","e">>

\* C25: when the name parser yields an empty last name, verify returns at once
\* with the note "Could not parse name" and sends no request; a request is
\* sent only with a non-empty last name; a request exception becomes a
\* "Request error" note and is not raised.
C25_NoRequestWithoutLastName ==
    [][VerifyCalled =>
         LET parts == extract_name_parts(df[verify_idx + 1].therapist_name)
         IN  /\ parts[2] = <<>> =>
                   /\ result'.verification_notes = <<"C","o","u","l","d"," ","n","o","t"," ","p","a","r","s","e"," ","n","a","m","e">>
                   /\ NewEvents = <<>>
             /\ parts[2] # <<>> =>
                   /\ NewEvents # <<>>
                   /\ NewEvents[1].call = "get"
                   /\ NewEvents[1].last_name = parts[2]
             /\ \A k \in 1..Len(NewEvents) :
                   NewEvents[k].call = "get" =>
                       /\ NewEvents[k].last_name # <<>>
                       /\ NewEvents[k].outcome = "raises" =>
                             /\ StartsWith(result'.verification_notes, <<"R","e","q","u","e","s","t"," ","e","r","r","o","r">>)
                             /\ pc' # "raised"]_vars

\* the name "Mark" leaves no last name: the note is written and no request
\* was sent
C25_Witness ==
    /\ verify_idx = 1
    /\ text_in = <<"M","a","r","k">>
    /\ result.verification_notes = <<"C","o","u","l","d"," ","n","o","t"," ","p","a","r","s","e"," ","n","a","m","e">>
    /\ events = <<>>

\* the requests a verifier sent, as positions in events
RequestsOf(state) ==
    {k \in 1..Len(events) : events[k].call = "get" /\ events[k].state = state}

\* C26: between any two consecutive requests of the same verifier the
\* verifier sleeps for its delay, whatever the outcome of the earlier request.
C26_SleepBetweenRequests ==
    \A state \in {"DC", "MD", "VA"} :
        \A k, m \in RequestsOf(state) :
            (k < m /\ ~\E j \in RequestsOf(state) : k < j /\ j < m) =>
                \E j \in (k + 1)..(m - 1) :
                    /\ events[j].call = "sleep"
                    /\ events[j].state = state
                    /\ events[j].seconds = REQUEST_DELAY

----------------------------------------------------------------------------
(* outscraper_pull.py: pull_google_maps *)

\* Python values carry their type: [type |-> "list", value |-> <<...>>],
\* [type |-> "dict", ...], [type |-> "NoneType"]
PyList(items) == [type |-> "list", value |-> items]

Place(name) == [type |-> "dict", name |-> name]

\* the records pull_google_maps makes of what the API returned: results[0] if
\* results is a non-empty list whose first element is a list, results if it
\* is another non-empty list, [] otherwise
RecordsOf(results) ==
    IF results.type = "list" /\ results.value # <<>>
    THEN IF results.value[1].type = "list" THEN results.value[1] ELSE results
    ELSE PyList(<<>>)

\* a wait of the same length after every failed attempt
RetryWaitFlat(at, max_retries) ==
    IF at < max_retries THEN <<[call |-> "sleep", seconds |-> 10]>> ELSE <<>>

\* the wait after a failed attempt: 10 * attempt seconds, none after the last
RetryWait(at, max_retries) ==
    IF at < max_retries THEN <<[call |-> "sleep", seconds |-> 10 * at]>> ELSE <<>>

MaxRetries == 3

\* what client.google_maps_search can do: raise, or return one of these
ApiOutcomes ==
    {[outcome |-> "raises"],
     [outcome |-> "returns",
      results |-> PyList(<<PyList(<<Place(NameJane), Place(NameHealing)>>)>>)],
     [outcome |-> "returns", results |-> PyList(<<PyList(<<>>)>>)],
     [outcome |-> "returns", results |-> PyList(<<Place(NameJane)>>)],
     [outcome |-> "returns", results |-> PyList(<<>>)],
     [outcome |-> "returns", results |-> [type |-> "dict", name |-> NameJane]],
     [outcome |-> "returns", results |-> [type |-> "NoneType"]]}

\* pull_google_maps(client, query, location, limit, max_retries) is called;
\* max_retries is 3 in every call of the scripts
InitPull ==
    /\ \E query \in {<<"t","h","e","r","a","p","i","s","t">>, <<"c","o","u","n","s","e","l","o","r">>},
          location \in {<<"W","a","s","h","i","n","g","t","o","n",","," ","D","C">>, <<"B","a","l","t","i","m","o","r","e",","," ","M","D">>},
          limit \in {100, 500},
          max_retries \in 1..MaxRetries :
          args = [search_query |-> query \o <<","," ">> \o location, limit |-> limit,
                  max_retries |-> max_retries]
    /\ attempt = 0
    /\ events = <<>>
    /\ result = NaN
    /\ text_in = NaN
    /\ pc = "pull_google_maps"
    /\ config = <<>> /\ lookup = <<>>
    /\ PipelineIdle
    /\ start_idx = 0 /\ all_results = <<>> /\ checkpoint = {} /\ verify_idx = 0

\* one pass of the retry loop: the search is called; a result ends the loop
\* and the records are returned; an exception is followed by the wait, or by
\* return [] after the last attempt
SearchAttempt ==
    /\ pc = "pull_google_maps"
    /\ attempt < args.max_retries
    /\ attempt' = attempt + 1
    /\ \E api \in ApiOutcomes :
          LET search == [call |-> "google_maps_search", query |-> args.search_query,
                         limit |-> args.limit, outcome |-> api.outcome]
          IN  IF api.outcome = "returns"
              THEN /\ events' = Append(events, search)
                   /\ result' = RecordsOf(api.results)
                   /\ pc' = "returned"
              ELSE /\ events' = Append(events, search)
                                    \o RetryWait(attempt', args.max_retries)
                   /\ IF attempt' < args.max_retries
                      THEN /\ pc' = "pull_google_maps"
                           /\ result' = result
                      ELSE /\ pc' = "returned"
                           /\ result' = PyList(<<>>)
    /\ UNCHANGED <<config, lookup, text_in, pipelineVars, args, start_idx,
                   all_results, checkpoint, verify_idx>>

NextPull == SearchAttempt

SpecPull == InitPull /\ [][NextPull]_vars

\* the calls of the search API made so far
SearchCalls == SelectSeq(events, LAMBDA e : e.call = "google_maps_search")

\* C27: pull_google_maps calls the search API at most max_retries times and
\* stops at the first call that succeeds; after each failed attempt but the
\* last it sleeps 10 * attempt seconds; when every attempt fails it returns an
\* empty list and does not raise; whatever happens it returns a list.
C27_RetriesThenEmptyList ==
    /\ [](/\ Len(SearchCalls) = attempt
          /\ attempt <= args.max_retries
          /\ \A k \in 1..(Len(SearchCalls) - 1) : SearchCalls[k].outcome = "raises"
          /\ pc = "pull_google_maps" => attempt < args.max_retries
          /\ pc = "returned" =>
                /\ result.type = "list"
                /\ SearchCalls[attempt].outcome = "raises" =>
                      /\ attempt = args.max_retries
                      /\ result = PyList(<<>>))
    /\ [][/\ pc' \in {"pull_google_maps", "returned"}
          /\ NewEvents[1].call = "google_maps_search"
          /\ (NewEvents[1].outcome = "raises" /\ attempt' < args.max_retries) =>
                NewEvents = <<NewEvents[1], [call |-> "sleep", seconds |-> 10 * attempt']>>
          /\ (NewEvents[1].outcome = "returns" \/ attempt' = args.max_retries) =>
                (Len(NewEvents) = 1 /\ pc' = "returned")]_vars

\* the first two attempts failed and were followed by waits of 10 and 20
\* seconds; the third returned two places
C27_Witness ==
    /\ pc = "returned"
    /\ args.max_retries = 3
    /\ attempt = 3
    /\ Len(events) = 5
    /\ events[2] = [call |-> "sleep", seconds |-> 10]
    /\ events[4] = [call |-> "sleep", seconds |-> 20]
    /\ events[5].outcome = "returns"
    /\ result = PyList(<<Place(NameJane), Place(NameHealing)>>)

----------------------------------------------------------------------------
(* Name and phone of the records main writes out *)

\* the frame has left standardize_fields, the fourth step of main
Standardized == pc \in {"validate_urls_live", "add_derived_fields", "write_output"}

\* records i < j of the frame carry the same lowercased, trimmed name and the
\* same non-empty phone
SameNameAndPhone(i, j) ==
    /\ i < j
    /\ df[i].therapist_name # NaN
    /\ df[j].therapist_name # NaN
    /\ Strip(Lower(df[i].therapist_name)) = Strip(Lower(df[j].therapist_name))
    /\ df[i].phone # <<>>
    /\ df[i].phone = df[j].phone

\* C29: once remove_closed, filter_non_therapists, remove_duplicates and
\* standardize_fields have run, no two records of the frame have the same
\* lowercased and trimmed name together with the same non-empty
\* standardized phone number.
C29_NoSameNameAndPhone ==
    Standardized =>
        \A i \in 1..Len(df), j \in 1..Len(df) : ~SameNameAndPhone(i, j)

====
